---- MODULE Spec2Model ----
(***************************************************************************)
(* Tool-execution runtime of the Tricode agent (src/agent/tools.py):       *)
(* the dispatcher execute_tool, the plan gate, the permission gate, the    *)
(* path sandbox and the tools they guard.                                  *)
(*                                                                         *)
(* Python strings are modelled as sequences of one-character strings, so   *)
(* that prefix tests, joins and splits are computed as the code computes   *)
(* them.                                                                   *)
(***************************************************************************)
EXTENDS Integers, Sequences, FiniteSets, TLC

VARIABLES
    CURRENT_PLAN,               \* tools.py:27   [exists, tasks]
    CURRENT_SESSION_ID,         \* tools.py:28   "" models None
    PLAN_DECISION_MADE,         \* tools.py:29
    SIGNIFICANT_ACTIONS_COUNT,  \* tools.py:30
    WORK_DIR,                   \* tools.py:33
    BYPASS_WORK_DIR_LIMIT,      \* tools.py:34
    BYPASS_PERMISSION,          \* tools.py:35
    BYPASS_PLAN_CHECK,          \* tools.py:36
    EXIT_ON_TERMINATE,          \* tools.py:37
    SESSION_APPROVED_TOOLS,     \* tools.py:38
    PERMISSION_CALLBACK,        \* tools.py:39   TRUE when a callback is installed
    ACTIVE_SESSIONS,            \* tools.py:249  session id -> session record
    fs,                         \* the filesystem: canonical path -> node
    planFiles,                  \* ~/.tricode/plans/<session id>.json
    planLog,                    \* history: the plan each conversation session
                                \* last created or updated, and how its save went
    SESSION_LOCK,               \* tools.py:250  the thread holding the lock, "" when free
    run,                        \* the threads around the session table: where
                                \* the caller and the reaper stand, the pipes and
                                \* queues of the sessions, what reads returned
    host,                       \* "running" | "exited": the host process
    last,                       \* observation of the most recent call
    remembered,                 \* tools given allow-and-remember since the last reset
    now,                        \* time.time(), in seconds
    pathIn,                     \* path handed to resolve_path/validate_path
    pathOut,                    \* what resolve_path/validate_path returned
    writer                      \* the file write in progress, step by step

vars == << CURRENT_PLAN, CURRENT_SESSION_ID, PLAN_DECISION_MADE,
           SIGNIFICANT_ACTIONS_COUNT, WORK_DIR, BYPASS_WORK_DIR_LIMIT,
           BYPASS_PERMISSION, BYPASS_PLAN_CHECK, EXIT_ON_TERMINATE,
           SESSION_APPROVED_TOOLS, PERMISSION_CALLBACK, ACTIVE_SESSIONS,
           fs, planFiles, planLog, SESSION_LOCK, run, host, last, remembered, now, pathIn, pathOut, writer >>

-----------------------------------------------------------------------------
(* Bounds of the model *)

MaxPathLen == 4

\* calls of output_queue.get that fit into one read_output timeout
MaxPolls == 3

\* longest text a file is given
MaxTextLen == 2

-----------------------------------------------------------------------------
(* Strings *)

SEP == "/"

RECURSIVE SeqsUpTo(_, _)
SeqsUpTo(S, n) ==
    IF n = 0 THEN { <<>> }
    ELSE LET shorter == SeqsUpTo(S, n - 1)
         IN  shorter \cup { Append(s, c) : s \in shorter, c \in S }

\* the element of a one-element set
The(S) == CHOOSE x \in S : TRUE

StartsWith(s, p) ==
    /\ Len(p) <= Len(s)
    /\ SubSeq(s, 1, Len(p)) = p

EndsWith(s, p) ==
    /\ Len(p) <= Len(s)
    /\ SubSeq(s, Len(s) - Len(p) + 1, Len(s)) = p

IsPrefixSeq(p, s) ==
    /\ Len(p) <= Len(s)
    /\ \A i \in 1..Len(p) : s[i] = p[i]

\* str.split("/"): the components between separators, empty ones included
RECURSIVE SplitSep(_)
SplitSep(s) ==
    IF \A i \in 1..Len(s) : s[i] # SEP THEN << s >>
    ELSE LET i == CHOOSE k \in 1..Len(s) :
                      /\ s[k] = SEP
                      /\ \A j \in 1..(k - 1) : s[j] # SEP
         IN  << SubSeq(s, 1, i - 1) >> \o SplitSep(SubSeq(s, i + 1, Len(s)))

\* "/" + "/".join(components): the string of an absolute, normalised path
RECURSIVE JoinSep(_)
JoinSep(comps) ==
    IF comps = <<>> THEN <<>>
    ELSE << SEP >> \o Head(comps) \o JoinSep(Tail(comps))

PathStr(comps) == IF comps = <<>> THEN << SEP >> ELSE JoinSep(comps)

-----------------------------------------------------------------------------
(* The filesystem.  A node is a directory, a regular file or a symbolic    *)
(* link; the key is the node's path with no link in any parent component.  *)

DirNode == [kind |-> "dir", target |-> <<>>, text |-> <<>>]
FileNode(t) == [kind |-> "file", target |-> <<>>, text |-> t]
LinkNode(t) == [kind |-> "link", target |-> t, text |-> <<>>]

pW   == << "/", "w" >>
pWl  == << "/", "w", "/", "l" >>
pWx  == << "/", "w", "x" >>
pX   == << "/", "x" >>
pL   == << "/", "l" >>
pRoot == << "/" >>

\* /w is the usual work directory; /w/l is a link that leaves it, /l a link
\* that enters it, /wx a sibling whose name starts with the name of /w.
InitialFs ==
    ( pRoot :> DirNode ) @@ ( pW :> DirNode ) @@ ( pWx :> DirNode ) @@
    ( pX :> DirNode ) @@ ( pWl :> LinkNode(pX) ) @@ ( pL :> LinkNode(pW) )

HOME == pW
CWD  == pW

islink(fsv, p) == p \in DOMAIN fsv /\ fsv[p].kind = "link"

-----------------------------------------------------------------------------
(* os.path *)

isabs(s) == StartsWith(s, << SEP >>)

\* os.path.join(a, b)
join(a, b) ==
    IF isabs(b) THEN b
    ELSE IF a = <<>> \/ EndsWith(a, << SEP >>) THEN a \o b
    ELSE a \o << SEP >> \o b

\* os.path.expanduser: "~" and "~/..." name HOME; "~name" of an unknown
\* user is returned unchanged
expanduser(s) ==
    IF ~ StartsWith(s, << "~" >>) THEN s
    ELSE IF Len(s) = 1 THEN HOME
    ELSE IF s[2] = SEP THEN HOME \o SubSeq(s, 2, Len(s))
    ELSE s

\* posixpath._joinrealpath: walk the components of rest from the resolved
\* directory stack, following every link met on the way
RECURSIVE joinrealpath(_, _, _)
joinrealpath(fsv, stack, rest) ==
    IF rest = <<>> THEN stack
    ELSE The({
        IF name = <<>> \/ name = << "." >>
        THEN joinrealpath(fsv, stack, more)
        ELSE IF name = << ".", "." >>
        THEN joinrealpath(fsv,
                 IF stack = <<>> THEN stack
                 ELSE SubSeq(stack, 1, Len(stack) - 1),
                 more)
        ELSE IF ~ islink(fsv, PathStr(Append(stack, name)))
        THEN joinrealpath(fsv, Append(stack, name), more)
        ELSE
            \* the link's target is resolved first, from the root when it
            \* is absolute and from the link's directory when it is not
            The({ joinrealpath(fsv, linked, more) :
                  linked \in { joinrealpath(fsv,
                                   IF isabs(fsv[PathStr(Append(stack, name))].target)
                                   THEN <<>> ELSE stack,
                                   SplitSep(fsv[PathStr(Append(stack, name))].target)) } })
        : name \in { Head(rest) }, more \in { Tail(rest) } })

\* The components of os.path.realpath(s) for an absolute s
realcomps(fsv, s) == joinrealpath(fsv, <<>>, SplitSep(s))

\* os.path.realpath(s); a relative s is taken from the current directory
realpath(fsv, s) ==
    PathStr(realcomps(fsv, IF isabs(s) THEN s ELSE join(CWD, s)))

-----------------------------------------------------------------------------
(* PathSandbox: set_work_dir, resolve_path, validate_path *)

\* set_work_dir(work_dir, bypass): the value WORK_DIR gets; an empty
\* work_dir models None
set_work_dir(fsv, work_dir) ==
    IF work_dir # <<>> THEN realpath(fsv, work_dir) ELSE realpath(fsv, CWD)

resolve_path(fsv, workdir, path) ==
    LET expanded == expanduser(path)
    IN  IF isabs(expanded) THEN realpath(fsv, expanded)
        ELSE realpath(fsv, join(workdir, expanded))

\* A containment test on the bare string prefix, without the separator
validate_path_prefix_only(fsv, workdir, bypass, path) ==
    IF bypass THEN [ok |-> TRUE, msg |-> "ok"]
    ELSE IF ~ StartsWith(realpath(fsv, path), workdir)
    THEN [ok |-> FALSE, msg |-> "Access denied"]
    ELSE [ok |-> TRUE, msg |-> "ok"]

validate_path(fsv, workdir, bypass, path) ==
    IF bypass THEN [ok |-> TRUE, msg |-> "ok"]
    ELSE The({
        IF ~ StartsWith(real_path, workdir \o << SEP >>) /\ real_path # workdir
        THEN [ok |-> FALSE, msg |-> "Access denied"]
        ELSE [ok |-> TRUE, msg |-> "ok"]
        : real_path \in { realpath(fsv, path) } })

-----------------------------------------------------------------------------
(* os.path and os calls on the filesystem *)

\* os.path.exists / isdir / isfile / islink of a path p that realpath
\* returned: no component of p is a link, so the node at p is what the call
\* looks at
exists(fsv, p) == p \in DOMAIN fsv /\ fsv[p].kind # "link"

isdir(fsv, p) == p \in DOMAIN fsv /\ fsv[p].kind = "dir"

isfile(fsv, p) == p \in DOMAIN fsv /\ fsv[p].kind = "file"

\* os.path.dirname of an absolute normalised path
dirname(p) ==
    LET comps == realcomps(<< >>, p)
    IN  IF comps = <<>> THEN << SEP >>
        ELSE PathStr(SubSeq(comps, 1, Len(comps) - 1))

\* the paths of the proper ancestors of p, and p itself
PathPrefixes(p) ==
    LET comps == realcomps(<< >>, p)
    IN  { PathStr(SubSeq(comps, 1, k)) : k \in 0..Len(comps) }

\* the nodes strictly below directory p
Descendants(fsv, p) ==
    { q \in DOMAIN fsv : q # p /\ p \in PathPrefixes(q) }

\* os.makedirs(p): every missing ancestor and p itself become directories;
\* it raises when an existing ancestor is not a directory
makedirs_ok(fsv, p) ==
    \A q \in PathPrefixes(p) : q \in DOMAIN fsv => isdir(fsv, q)

makedirs(fsv, p) ==
    [ q \in DOMAIN fsv \cup PathPrefixes(p) |->
        IF q \in DOMAIN fsv THEN fsv[q] ELSE DirNode ]

\* a file can be created or replaced at p: its directory exists
dir_writable(fsv, p) == isdir(fsv, dirname(p))

\* tempfile.NamedTemporaryFile(dir=dirname(p), delete=False) ; write ;
\* os.rename(tmp, p): p holds the whole new text
write_via_rename(fsv, p, t) ==
    [ q \in DOMAIN fsv \cup { p } |-> IF q = p THEN FileNode(t) ELSE fsv[q] ]

\* the temporary file a failed write leaves behind in directory d
TmpName == << "t", "m", "p" >>

stray_tmp(fsv, d) ==
    LET q == join(d, TmpName)
    IN  [ r \in DOMAIN fsv \cup { q } |-> IF r = q THEN FileNode(<<>>) ELSE fsv[r] ]

remove_nodes(fsv, gone) == [ q \in DOMAIN fsv \ gone |-> fsv[q] ]

\* what a reader finds at path p
NoNode == [kind |-> "none", target |-> <<>>, text |-> <<>>]

node_at(fsv, p) == IF p \in DOMAIN fsv THEN fsv[p] ELSE NoNode

\* A writer that opens the target itself for writing
tmp_path_is_target(dir_path, resolved_path) == resolved_path

\* tempfile.NamedTemporaryFile(mode='w', dir=dir_path, delete=False).name
tmp_path(dir_path, resolved_path) == join(dir_path, TmpName)

\* open(p, 'w'): p is there and empty
open_for_write(fsv, p) ==
    [ q \in DOMAIN fsv \cup { p } |-> IF q = p THEN FileNode(<<>>) ELSE fsv[q] ]

\* the first k characters of text have reached the file p
write_chars(fsv, p, text, k) ==
    [fsv EXCEPT ![p] = FileNode(SubSeq(text, 1, k))]

\* os.rename(src, dst): dst is what src was, src is gone
os_rename(fsv, src, dst) ==
    IF src = dst THEN fsv
    ELSE [ q \in (DOMAIN fsv \ { src }) \cup { dst } |->
             IF q = dst THEN fsv[src] ELSE fsv[q] ]

\* no write in progress
NoWrite ==
    [ pc |-> "idle", target |-> <<>>, tmp |-> <<>>, text |-> <<>>,
      old |-> NoNode ]

-----------------------------------------------------------------------------
(* Tool arguments.  has lists the keys present in the argument map; a key  *)
(* that is absent reads as None (or as the default the dispatcher gives).  *)

DefaultArgs ==
    [ has |-> {}, path |-> <<>>, content |-> <<>>, mode |-> "patch",
      dry_run |-> FALSE, hunks |-> <<>>, sha |-> <<>>, recursive |-> FALSE,
      parents |-> TRUE, exist_ok |-> FALSE, symbol |-> <<>>,
      action |-> "", tasks |-> <<>>, tasks_type |-> "list",
      task_id |-> 0, status |-> "",
      session_id |-> "", input_text |-> <<>>, command |-> <<>> ]

\* arguments.get("path", "."): list_directory, search_context, search_symbol
PathOrDot(a) == IF "path" \in a.has THEN a.path ELSE << "." >>

\* What a tool function hands back: the (ok, msg) pair, or exc = TRUE when
\* it raised; the filesystem it leaves; the filesystem calls it made.
\* A file tool's answer and what it did.  commit tells what it wrote through
\* a temporary file and a rename (base is the filesystem the temporary file
\* is made in), applied and diff are the fields of edit_file's result.
NoCommit == [target |-> <<>>, text |-> <<>>, base |-> << >>]

\* what the patch loop of edit_file did: hunks_applied of the result, the
\* span each hunk selected, the running text after each, and meta, the
\* "matches" list of the result (matches_meta)
NoPatch ==
    [hunks_applied |-> 0, matches |-> <<>>, texts |-> <<>>, meta |-> <<>>]

FsResult(ok, msg, fsv, log) ==
    [ ok |-> ok, msg |-> msg, exc |-> FALSE, fs |-> fsv, log |-> log,
      commit |-> NoCommit, applied |-> FALSE, diff |-> <<>>,
      patch |-> NoPatch, content |-> <<>> ]

\* resolve_path(None): os.path.expanduser raises TypeError
FsRaise(fsv) ==
    [ ok |-> FALSE, msg |-> "TypeError", exc |-> TRUE, fs |-> fsv, log |-> {},
      commit |-> NoCommit, applied |-> FALSE, diff |-> <<>>,
      patch |-> NoPatch, content |-> <<>> ]

Denied(fsv) == FsResult(FALSE, "Access denied", fsv, {})

-----------------------------------------------------------------------------
(* File tools *)

\* content.splitlines(keepends=True), for the line end "\n"
RECURSIVE splitlines(_)
splitlines(content) ==
    IF content = <<>> THEN <<>>
    ELSE LET ends == { i \in 1..Len(content) : content[i] = "\n" }
         IN  IF ends = {} THEN << content >>
             ELSE LET k == CHOOSE i \in ends : \A j \in ends : i <= j
                  IN  << SubSeq(content, 1, k) >>
                        \o splitlines(SubSeq(content, k + 1, Len(content)))

\* str(current), for the line numbers below 10
decimal(current) ==
    << "1", "2", "3", "4", "5", "6", "7", "8", "9" >>[current]

\* ''.join(f"{current}: {line}" for the lines, current counting up)
RECURSIVE numbered_chunks(_, _)
numbered_chunks(lines, current) ==
    IF lines = <<>> THEN <<>>
    ELSE << decimal(current), ":", " " >> \o Head(lines)
            \o numbered_chunks(Tail(lines), current + 1)

\* _with_line_numbers(content, start_number)
with_line_numbers(content, start_number) ==
    IF content = <<>> THEN content
    ELSE numbered_chunks(splitlines(content),
                         IF start_number > 1 THEN start_number ELSE 1)

\* read_file(path) with no line window, no byte cap and no metadata: the
\* text of the file with its lines numbered
read_file(fsv, wd, bypass, a) ==
    IF "path" \notin a.has THEN FsRaise(fsv)
    ELSE
        The({
        LET valid == validate_path(fsv, wd, bypass, resolved_path)
        IN  IF ~ valid.ok THEN Denied(fsv)
            ELSE IF ~ exists(fsv, resolved_path)
            THEN FsResult(FALSE, "File not found", fsv, { "open" })
            ELSE IF ~ isfile(fsv, resolved_path)
            THEN FsResult(FALSE, "Read failed", fsv, { "open" })
            ELSE [FsResult(TRUE, "content", fsv, { "open", "read" })
                    EXCEPT !.content =
                        with_line_numbers(fsv[resolved_path].text, 1)]
        : resolved_path \in { resolve_path(fsv, wd, a.path) } })

create_file(fsv, wd, bypass, a) ==
    IF "path" \notin a.has THEN FsRaise(fsv)
    ELSE
        The({
        LET valid == validate_path(fsv, wd, bypass, resolved_path)
            dir_path == dirname(resolved_path)
        IN  IF ~ valid.ok THEN Denied(fsv)
            ELSE IF exists(fsv, resolved_path)
            THEN FsResult(FALSE, "File already exists", fsv, { "stat" })
            ELSE IF ~ exists(fsv, dir_path) /\ ~ makedirs_ok(fsv, dir_path)
            THEN FsResult(FALSE, "Create failed", fsv, { "stat", "mkdir" })
            ELSE
                LET withdirs == IF exists(fsv, dir_path) THEN fsv
                                ELSE makedirs(fsv, dir_path)
                IN  IF ~ isdir(withdirs, dir_path)
                    THEN FsResult(FALSE, "Create failed", withdirs,
                                  { "stat", "mkdir", "write" })
                    ELSE IF "content" \notin a.has
                    THEN FsResult(FALSE, "Create failed",
                                  stray_tmp(withdirs, dir_path),
                                  { "stat", "mkdir", "write" })
                    ELSE [FsResult(TRUE, "Successfully created",
                                   write_via_rename(withdirs, resolved_path, a.content),
                                   { "stat", "mkdir", "write" })
                            EXCEPT !.commit = [target |-> resolved_path,
                                               text |-> a.content,
                                               base |-> withdirs]]
        : resolved_path \in { resolve_path(fsv, wd, a.path) } })

delete_file(fsv, wd, bypass, a) ==
    IF "path" \notin a.has THEN FsRaise(fsv)
    ELSE
        The({
        LET valid == validate_path(fsv, wd, bypass, resolved_path)
        IN  IF ~ valid.ok THEN Denied(fsv)
            ELSE IF ~ exists(fsv, resolved_path) /\ ~ islink(fsv, resolved_path)
            THEN FsResult(FALSE, "File not found", fsv, { "stat" })
            ELSE IF isdir(fsv, resolved_path) /\ ~ islink(fsv, resolved_path)
            THEN FsResult(FALSE, "Is a directory", fsv, { "stat" })
            ELSE FsResult(TRUE, "Deleted file",
                          remove_nodes(fsv, { resolved_path }),
                          { "stat", "unlink" })
        : resolved_path \in { resolve_path(fsv, wd, a.path) } })

delete_path(fsv, wd, bypass, a) ==
    IF "path" \notin a.has THEN FsRaise(fsv)
    ELSE
        The({
        LET valid == validate_path(fsv, wd, bypass, resolved_path)
        IN  IF ~ valid.ok THEN Denied(fsv)
            ELSE IF ~ exists(fsv, resolved_path) /\ ~ islink(fsv, resolved_path)
            THEN FsResult(FALSE, "Path not found", fsv, { "stat" })
            ELSE IF realpath(fsv, resolved_path) = realpath(fsv, wd)
            THEN FsResult(FALSE, "Refusing to delete the work directory root",
                          fsv, { "stat" })
            ELSE IF isfile(fsv, resolved_path) \/ islink(fsv, resolved_path)
            THEN FsResult(TRUE, "Deleted file",
                          remove_nodes(fsv, { resolved_path }),
                          { "stat", "unlink" })
            ELSE IF a.recursive
            THEN FsResult(TRUE, "Deleted directory recursively",
                          remove_nodes(fsv, { resolved_path }
                                            \cup Descendants(fsv, resolved_path)),
                          { "stat", "rmtree" })
            ELSE IF Descendants(fsv, resolved_path) # {}
            THEN FsResult(FALSE, "Delete failed", fsv, { "stat", "rmdir" })
            ELSE FsResult(TRUE, "Deleted empty directory",
                          remove_nodes(fsv, { resolved_path }),
                          { "stat", "rmdir" })
        : resolved_path \in { resolve_path(fsv, wd, a.path) } })

mkdir(fsv, wd, bypass, a) ==
    IF "path" \notin a.has THEN FsRaise(fsv)
    ELSE
        The({
        LET valid == validate_path(fsv, wd, bypass, resolved_path)
        IN  IF ~ valid.ok THEN Denied(fsv)
            ELSE IF exists(fsv, resolved_path)
            THEN IF isdir(fsv, resolved_path)
                 THEN IF a.exist_ok
                      THEN FsResult(TRUE, "Directory exists", fsv, { "stat" })
                      ELSE FsResult(FALSE, "Directory already exists", fsv, { "stat" })
                 ELSE FsResult(FALSE, "Path exists and is not a directory",
                               fsv, { "stat" })
            ELSE IF a.parents
            THEN IF makedirs_ok(fsv, resolved_path)
                 THEN FsResult(TRUE, "Created directory",
                               makedirs(fsv, resolved_path), { "stat", "mkdir" })
                 ELSE FsResult(FALSE, "Create directory failed", fsv,
                               { "stat", "mkdir" })
            ELSE IF dir_writable(fsv, resolved_path)
            THEN FsResult(TRUE, "Created directory",
                          makedirs(fsv, resolved_path), { "stat", "mkdir" })
            ELSE FsResult(FALSE, "Create directory failed", fsv,
                          { "stat", "mkdir" })
        : resolved_path \in { resolve_path(fsv, wd, a.path) } })

list_directory(fsv, wd, bypass, a) ==
    The({
    LET valid == validate_path(fsv, wd, bypass, resolved_path)
    IN  IF ~ valid.ok THEN Denied(fsv)
        ELSE IF exists(fsv, resolved_path)
        THEN FsResult(TRUE, "listing", fsv, { "list" })
        ELSE FsResult(FALSE, "ls command error", fsv, { "list" })
    : resolved_path \in { resolve_path(fsv, wd, PathOrDot(a)) } })

search_context(fsv, wd, bypass, a) ==
    The({
    LET valid == validate_path(fsv, wd, bypass, resolved_path)
    IN  IF ~ valid.ok THEN Denied(fsv)
        ELSE IF exists(fsv, resolved_path)
        THEN FsResult(TRUE, "matches", fsv, { "walk", "read" })
        ELSE FsResult(FALSE, "Search error", fsv, { "walk" })
    : resolved_path \in { resolve_path(fsv, wd, PathOrDot(a)) } })

search_symbol(fsv, wd, bypass, a) ==
    IF "symbol" \notin a.has \/ a.symbol = <<>>
    THEN FsResult(FALSE, "Symbol name is required", fsv, {})
    ELSE
        The({
        LET valid == validate_path(fsv, wd, bypass, resolved_path)
        IN  IF ~ valid.ok THEN Denied(fsv)
            ELSE FsResult(TRUE, "symbols", fsv, { "walk", "read" })
        : resolved_path \in { resolve_path(fsv, wd, PathOrDot(a)) } })

-----------------------------------------------------------------------------
(* PatchEngine: edit_file *)

\* _compute_sha256(text): the hex digest is modelled by a mark followed by
\* the text: it is never the empty string, and differs when the texts differ
compute_sha256(text) == << "#" >> \o text

\* _find_matches for an "exact" anchor: the non-overlapping occurrences of
\* pattern in text at or after offset start, as 0-based (start, end) spans
RECURSIVE find_exact(_, _, _)
find_exact(text, pattern, start) ==
    LET hits == { i \in start..(Len(text) - Len(pattern)) :
                      SubSeq(text, i + 1, i + Len(pattern)) = pattern }
    IN  IF hits = {} THEN <<>>
        ELSE LET i == CHOOSE k \in hits : \A j \in hits : k <= j
                 step == IF Len(pattern) = 0 THEN 1 ELSE Len(pattern)
             IN  << << i, i + Len(pattern) >> >>
                     \o find_exact(text, pattern, i + step)

\* re.compile(pattern, flags): the pattern "(" is the one that does not
\* compile; a pattern of letters matches as the literal it spells
regex_compiles(pattern) == \A i \in 1..Len(pattern) : pattern[i] # "("

\* _build_line_starts(text): the 0-based offset at which each line starts
RECURSIVE starts_after(_, _)
starts_after(text, i) ==
    IF i > Len(text) THEN <<>>
    ELSE IF text[i] = "\n" THEN << i >> \o starts_after(text, i + 1)
    ELSE starts_after(text, i + 1)

build_line_starts(text) == << 0 >> \o starts_after(text, 1)

\* _index_to_line(idx, line_starts): the binary search, on the 0-based
\* places lo..hi of line_starts
RECURSIVE index_search(_, _, _, _)
index_search(idx, line_starts, lo, hi) ==
    IF lo > hi THEN hi + 1
    ELSE LET mid == (lo + hi) \div 2
         IN  IF line_starts[mid + 1] <= idx
             THEN index_search(idx, line_starts, mid + 1, hi)
             ELSE index_search(idx, line_starts, lo, mid - 1)

index_to_line(idx, line_starts) ==
    index_search(idx, line_starts, 0, Len(line_starts) - 1)

\* text[lo:hi] for offsets that are not negative
Slice(text, lo, hi) ==
    IF hi <= lo THEN <<>>
    ELSE SubSeq(text, lo + 1, IF hi < Len(text) THEN hi ELSE Len(text))

\* The part of text _find_matches searches and the offset it starts at.
\* range is << >> when the anchor has none (or one that is not a list of
\* two), else [start_line, end_line].  A start_line beyond the last line
\* raises IndexError at line_starts[start_line - 1]; the except branch
\* then takes the whole text, with base_offset still 0.
search_window(text, range) ==
    IF Len(range) # 2 \/ range[1] < 1 \/ range[2] < range[1]
    THEN [base_offset |-> 0, search_text |-> text]
    ELSE
        The({
        IF range[1] - 1 >= Len(line_starts)
        THEN [base_offset |-> 0, search_text |-> text]
        ELSE
            LET max_line == index_to_line(Len(text), line_starts)
                end_line == IF range[2] < max_line THEN range[2] ELSE max_line
                end_offset == IF end_line - 1 < Len(line_starts) - 1
                              THEN line_starts[end_line + 1]
                              ELSE IF end_line - 1 < Len(line_starts)
                              THEN line_starts[end_line]
                              ELSE Len(text)
            IN  [base_offset |-> line_starts[range[1]],
                 search_text |->
                     Slice(text, line_starts[range[1]], end_offset)]
        : line_starts \in { build_line_starts(text) } })

\* (base_offset + start, base_offset + end) for the spans of search_text
shifted(spans, base_offset) ==
    [ k \in 1 .. Len(spans) |->
        << base_offset + spans[k][1], base_offset + spans[k][2] >> ]

\* _find_matches(text, anchor): ok = FALSE models the ValueError raised for
\* a regex that does not compile and for an anchor type that is not
\* supported; finditer yields the non-overlapping matches from the left
find_matches(text, anchor) ==
    The({
    IF anchor.type = "exact"
    THEN [ok |-> TRUE,
          spans |-> shifted(find_exact(w.search_text, anchor.pattern, 0),
                            w.base_offset)]
    ELSE IF anchor.type = "regex" /\ regex_compiles(anchor.pattern)
    THEN [ok |-> TRUE,
          spans |-> shifted(find_exact(w.search_text, anchor.pattern, 0),
                            w.base_offset)]
    ELSE [ok |-> FALSE, spans |-> <<>>]
    : w \in { search_window(text, anchor.range) } })

\* An index that takes nth as counted from 0
occurrence_index_from_zero(anchor, spans) ==
    IF "nth" \in anchor.has THEN anchor.nth
    ELSE IF anchor.occurrence = "last" THEN Len(spans) - 1
    ELSE 0

\* idx: nth - 1 when the anchor has an nth, else the last span for
\* occurrence "last", else the first
occurrence_index(anchor, spans) ==
    IF "nth" \in anchor.has THEN anchor.nth - 1
    ELSE IF anchor.occurrence = "last" THEN Len(spans) - 1
    ELSE 0

\* An insert_after that puts the content in front of the span
insert_after_at_start(before, inside, after, content) ==
    before \o content \o inside \o after

\* text = text[:e] + h_content + text[e:]
insert_after(before, inside, after, content) ==
    before \o inside \o content \o after

\* One hunk of the patch loop applied to the running text; span is the
\* span the hunk selected
apply_hunk(text, h) ==
    The({
    LET spans == found.spans
        idx == occurrence_index(h.anchor, spans)
        failed(msg) == [ok |-> FALSE, msg |-> msg, text |-> text, span |-> <<>>]
    IN  IF ~ found.ok THEN failed("Edit failed")
        ELSE IF spans = <<>> THEN failed("Anchor not found")
        ELSE IF h.must_unique /\ "nth" \notin h.anchor.has
                /\ h.anchor.occurrence = "first" /\ Len(spans) # 1
        THEN failed("Anchor ambiguous")
        ELSE IF idx < 0 \/ idx >= Len(spans)
        THEN failed("Requested occurrence not found")
        ELSE
            LET sp == spans[idx + 1]
                b == sp[1]
                e == sp[2]
                before == SubSeq(text, 1, b)
                inside == SubSeq(text, b + 1, e)
                after == SubSeq(text, e + 1, Len(text))
                done(new_text) ==
                    [ok |-> TRUE, msg |-> "ok", text |-> new_text, span |-> sp]
            IN  IF h.op = "replace"
                THEN done(before \o h.content \o after)
                ELSE IF h.op = "insert_before"
                THEN done(before \o h.content \o inside \o after)
                ELSE IF h.op = "insert_after"
                THEN done(insert_after(before, inside, after, h.content))
                ELSE IF h.op = "delete"
                THEN done(before \o after)
                ELSE failed("Unsupported op")
    : found \in { find_matches(text, h.anchor) } })

\* the running results of the loop with one more hunk applied in front
with_hunk(r, rest) ==
    [rest EXCEPT !.patch =
        [hunks_applied |-> 1 + rest.patch.hunks_applied,
         matches |-> << r.span >> \o rest.patch.matches,
         texts |-> << r.text >> \o rest.patch.texts,
         meta |-> <<>>]]

\* A patch loop that passes over a hunk that fails and goes on
RECURSIVE apply_hunks_skipping(_, _)
apply_hunks_skipping(text, hunks) ==
    IF hunks = <<>>
    THEN [ok |-> TRUE, msg |-> "ok", text |-> text, patch |-> NoPatch]
    ELSE The({ The({ IF r.ok THEN with_hunk(r, rest) ELSE rest
                     : rest \in { apply_hunks_skipping(r.text, Tail(hunks)) } })
               : r \in { apply_hunk(text, Head(hunks)) } })

\* for h in hunks: ... ; the first failing hunk ends the call
RECURSIVE apply_hunks(_, _)
apply_hunks(text, hunks) ==
    IF hunks = <<>>
    THEN [ok |-> TRUE, msg |-> "ok", text |-> text, patch |-> NoPatch]
    ELSE The({ IF ~ r.ok
               THEN [ok |-> FALSE, msg |-> r.msg, text |-> text,
                     patch |-> NoPatch]
               ELSE The({ with_hunk(r, rest)
                          : rest \in { apply_hunks(r.text, Tail(hunks)) } })
               : r \in { apply_hunk(text, Head(hunks)) } })

\* matches_meta: for each hunk its op, the lines of the span it selected
\* in the running text it was found in, and original_text[s:e][:120], the
\* characters of the text read from the file at the offsets of that span
matches_meta(original_text, hunks, patch) ==
    [ i \in 1 .. Len(patch.matches) |->
        The({
        [ op |-> hunks[i].op,
          start_line |-> index_to_line(patch.matches[i][1], line_starts),
          end_line |->
              index_to_line(IF patch.matches[i][2] > patch.matches[i][1]
                            THEN patch.matches[i][2] - 1
                            ELSE patch.matches[i][1],
                            line_starts),
          anchor_snippet |->
              Slice(IF /\ patch.matches[i][1] < Len(original_text)
                       /\ patch.matches[i][2] <= Len(original_text)
                    THEN Slice(original_text, patch.matches[i][1],
                               patch.matches[i][2])
                    ELSE <<>>,
                    0, 120) ]
        : line_starts \in { build_line_starts(IF i = 1 THEN original_text
                                              ELSE patch.texts[i - 1]) } }) ]

\* ''.join(difflib.unified_diff(a, b)): empty when the texts are the same,
\* else what tells the one from the other
unified_diff(a, b) == IF a = b THEN <<>> ELSE << a, b >>

\* the commit at the end of both branches of edit_file: temporary file in
\* the target's directory, then rename over the target
edit_commit(fsv, resolved_path, original_text, new_text) ==
    IF dir_writable(fsv, resolved_path)
    THEN [FsResult(TRUE, "applied",
                   write_via_rename(fsv, resolved_path, new_text),
                   { "stat", "read", "write" })
            EXCEPT !.commit = [target |-> resolved_path, text |-> new_text,
                               base |-> fsv],
                   !.applied = TRUE,
                   !.diff = unified_diff(original_text, new_text)]
    ELSE FsResult(FALSE, "Edit failed", fsv, { "stat", "read", "write" })

\* the answer of a dry run: "applied": False and the diff
edit_preview(fsv, original_text, new_text) ==
    [FsResult(TRUE, "dry run", fsv, { "stat", "read" })
        EXCEPT !.diff = unified_diff(original_text, new_text)]

\* An edit_file that commits whatever dry_run says
is_dry_run_never(a) == FALSE

\* if dry_run: return the preview instead of writing
is_dry_run(a) == a.dry_run

\* An edit_file that trusts every precondition
precondition_fails_never(a, original_text) == FALSE

\* precondition and precondition.get("file_sha256") and the digest of the
\* text read differs from it
precondition_fails(a, original_text) ==
    /\ "precondition" \in a.has
    /\ a.sha # <<>>
    /\ compute_sha256(original_text) # a.sha

edit_file(fsv, wd, bypass, a) ==
    IF "path" \notin a.has THEN FsRaise(fsv)
    ELSE
        The({
        LET valid == validate_path(fsv, wd, bypass, resolved_path)
            existed == exists(fsv, resolved_path)
            original_text == IF existed /\ isfile(fsv, resolved_path)
                             THEN fsv[resolved_path].text
                             ELSE <<>>
        IN  IF ~ valid.ok THEN Denied(fsv)
            ELSE IF a.mode \notin { "overwrite", "append", "prepend", "patch" }
            THEN FsResult(FALSE, "Unsupported mode", fsv, {})
            ELSE IF existed /\ ~ isfile(fsv, resolved_path)
            THEN FsResult(FALSE, "Edit failed", fsv, { "stat", "read" })
            ELSE IF ~ existed /\ a.mode # "overwrite" /\ ~ a.dry_run
            THEN FsResult(FALSE, "File not found", fsv, { "stat" })
            ELSE IF precondition_fails(a, original_text)
            THEN FsResult(FALSE, "Precondition failed", fsv, { "stat", "read" })
            ELSE IF a.mode \in { "overwrite", "append", "prepend" }
            THEN IF "content" \notin a.has
                 THEN FsResult(FALSE, "Content required for simple modes",
                               fsv, { "stat", "read" })
                 ELSE
                     LET new_text ==
                             IF a.mode = "overwrite" THEN a.content
                             ELSE IF a.mode = "append" THEN original_text \o a.content
                             ELSE a.content \o original_text
                     IN  IF is_dry_run(a)
                         THEN edit_preview(fsv, original_text, new_text)
                         ELSE edit_commit(fsv, resolved_path, original_text,
                                          new_text)
            ELSE IF "hunks" \notin a.has \/ a.hunks = <<>>
            THEN FsResult(FALSE, "Missing hunks for patch mode", fsv,
                          { "stat", "read" })
            ELSE
                The({
                    IF ~ r.ok THEN FsResult(FALSE, r.msg, fsv, { "stat", "read" })
                    ELSE
                        The({
                        IF is_dry_run(a)
                        THEN [edit_preview(fsv, original_text, r.text)
                                EXCEPT !.patch = p]
                        ELSE [edit_commit(fsv, resolved_path, original_text,
                                          r.text)
                                EXCEPT !.patch = p]
                        : p \in { [r.patch EXCEPT !.meta =
                                     matches_meta(original_text, a.hunks,
                                                  r.patch)] } })
                : r \in { apply_hunks(original_text, a.hunks) } })
        : resolved_path \in { resolve_path(fsv, wd, a.path) } })

-----------------------------------------------------------------------------
(* SessionManager.  Every call touches the table under SESSION_LOCK, so is  *)
(* one step; read_output dequeues after it has released the lock.          *)
(* env carries what the operating system answers: sid is the id uuid4      *)
(* yields, spawn_ok whether Popen succeeds, write_ok whether the write to  *)
(* stdin succeeds, term_ok whether the process exits within two seconds of *)
(* SIGTERM, polls what output_queue.get answers until the deadline.        *)

MAX_SESSIONS == 3
SESSION_TIMEOUT == 300
SESSION_IDLE_TIMEOUT == 30
OUTPUT_BUFFER_SIZE == 4096

NEWLINE == << "\n" >>

\* What a call did besides answering: spawned a process, replaced a table
\* entry, wrote to stdin, sent signals, left the process exited, dequeued
\* lines (their lengths after rstrip) in a number of polls.
SessResult(ok, msg, sessions) ==
    [ ok |-> ok, msg |-> msg, sessions |-> sessions,
      spawned |-> FALSE, replaced |-> FALSE, wrote |-> <<>>,
      signals |-> <<>>, exited |-> FALSE,
      lines |-> <<>>, marker |-> FALSE, polls |-> 0 ]

Without(sessions, sid) ==
    [ k \in DOMAIN sessions \ { sid } |-> sessions[k] ]

\* A limit test that lets one session too many in
at_session_limit_above(sessions) ==
    Cardinality(DOMAIN sessions) > MAX_SESSIONS

\* len(ACTIVE_SESSIONS) >= MAX_SESSIONS
at_session_limit(sessions) ==
    Cardinality(DOMAIN sessions) >= MAX_SESSIONS

start_session(sessions, t, a, env) ==
    IF at_session_limit(sessions)
    THEN SessResult(FALSE, "Maximum sessions reached", sessions)
    ELSE IF ~ env.spawn_ok
    THEN SessResult(FALSE, "Failed to start session", sessions)
    ELSE
        LET entry == [alive |-> TRUE, created_at |-> t, last_accessed |-> t,
                      command |-> a.command]
            table == [ k \in DOMAIN sessions \cup { env.sid } |->
                         IF k = env.sid THEN entry ELSE sessions[k] ]
            began == [SessResult(TRUE, "Session started", table) EXCEPT
                         !.spawned = TRUE,
                         !.replaced = env.sid \in DOMAIN sessions]
        IN  IF a.command = <<>> THEN began
            ELSE IF ~ env.write_ok
            THEN [began EXCEPT !.ok = FALSE, !.msg = "Failed to start session"]
            ELSE [began EXCEPT !.wrote = a.command \o NEWLINE]

\* A test that takes every process for running
has_terminated_never(entry) == FALSE

\* session["process"].poll() is not None
has_terminated(entry) == ~ entry.alive

send_input(sessions, t, a, env) ==
    IF a.session_id \notin DOMAIN sessions
    THEN SessResult(FALSE, "Session not found", sessions)
    ELSE IF has_terminated(sessions[a.session_id])
    THEN SessResult(FALSE, "Session has terminated", sessions)
    ELSE IF "input_text" \notin a.has \/ ~ env.write_ok
    THEN SessResult(FALSE, "Failed to send input", sessions)
    ELSE [SessResult(TRUE, "Input sent",
                     [sessions EXCEPT ![a.session_id].last_accessed = t])
            EXCEPT !.wrote = a.input_text \o NEWLINE]

\* A line the reader threads queued: body characters that end in a
\* non-blank one, then trail blank characters (the newline among them).
\* NoLine is the answer queue.Empty.
NoLine == [body |-> 0, trail |-> 0]

line_len(line) == line.body + line.trail

\* len(line.rstrip())
rstrip(line) == line.body

\* A reader that waits out the timeout whatever it has read
keep_waiting_always(output_lines) == TRUE

\* on queue.Empty: break if output_lines, else continue
keep_waiting(output_lines) == output_lines = <<>>

\* The loop of read_output over the answers still to come before the
\* deadline; used counts the calls of output_queue.get.
RECURSIVE read_loop(_, _, _, _)
read_loop(polls, output_lines, total_size, used) ==
    IF polls = <<>>
    THEN [lines |-> output_lines, marker |-> FALSE, polls |-> used]
    ELSE IF Head(polls) = NoLine
    THEN IF keep_waiting(output_lines)
         THEN read_loop(Tail(polls), output_lines, total_size, used + 1)
         ELSE [lines |-> output_lines, marker |-> FALSE, polls |-> used + 1]
    ELSE IF total_size + line_len(Head(polls)) > OUTPUT_BUFFER_SIZE
    THEN [lines |-> Append(output_lines, rstrip(Head(polls))),
          marker |-> TRUE, polls |-> used + 1]
    ELSE read_loop(Tail(polls), Append(output_lines, rstrip(Head(polls))),
                   total_size + line_len(Head(polls)), used + 1)

RECURSIVE SumSeq(_)
SumSeq(s) == IF s = <<>> THEN 0 ELSE Head(s) + SumSeq(Tail(s))

\* len("\n".join(output_lines)) for lines of the given lengths
joined_len(output_lines) ==
    IF output_lines = <<>> THEN 0
    ELSE SumSeq(output_lines) + Len(output_lines) - 1

read_output(sessions, t, a, env) ==
    IF a.session_id \notin DOMAIN sessions
    THEN SessResult(FALSE, "Session not found", sessions)
    ELSE
        The({
        [SessResult(TRUE,
                    IF r.lines = <<>> THEN "[no output within timeout]"
                    ELSE "output",
                    [sessions EXCEPT ![a.session_id].last_accessed = t])
           EXCEPT !.lines = r.lines, !.marker = r.marker, !.polls = r.polls]
        : r \in { read_loop(env.polls, <<>>, 0, 0) } })

\* A close that only asks the process to exit
stop_process_graceful_only(alive, term_ok) ==
    IF alive THEN << "terminate" >> ELSE <<>>

\* terminate(), wait(timeout=2), and kill() when the wait times out
stop_process(alive, term_ok) ==
    IF ~ alive THEN <<>>
    ELSE IF term_ok THEN << "terminate" >>
    ELSE << "terminate", "kill" >>

\* whether the process is gone once the signals are delivered
exited_after(alive, term_ok, signals) ==
    \/ ~ alive
    \/ Len(signals) >= 1 /\ term_ok
    \/ Len(signals) >= 2

close_session(sessions, t, a, env) ==
    IF a.session_id \notin DOMAIN sessions
    THEN SessResult(FALSE, "Session not found", sessions)
    ELSE
        The({
        [SessResult(TRUE, "Session closed", Without(sessions, a.session_id))
           EXCEPT !.signals = signals,
                  !.exited = exited_after(sessions[a.session_id].alive,
                                          env.term_ok, signals)]
        : signals \in { stop_process(sessions[a.session_id].alive,
                                     env.term_ok) } })

list_sessions(sessions, t, a, env) ==
    SessResult(TRUE, "sessions", sessions)

\* A reaper that takes a session on the second it reaches a timeout
expired_at_timeout(entry, t) ==
    \/ t - entry.last_accessed >= SESSION_IDLE_TIMEOUT
    \/ t - entry.created_at >= SESSION_TIMEOUT

\* A reaper that lets a session live as long as it is being used
expired_when_idle_only(entry, t) ==
    t - entry.last_accessed > SESSION_IDLE_TIMEOUT

\* idle_time > SESSION_IDLE_TIMEOUT or total_time > SESSION_TIMEOUT
expired(entry, t) ==
    \/ t - entry.last_accessed > SESSION_IDLE_TIMEOUT
    \/ t - entry.created_at > SESSION_TIMEOUT

\* One round of _cleanup_expired_sessions after its sleep: every expired
\* session gets terminate(), kill() when that fails, and leaves the table.
cleanup_expired_sessions(sessions, t, term_ok) ==
    The({
    [ sessions |-> [ k \in DOMAIN sessions \ expired_sessions |-> sessions[k] ],
      reaped |-> expired_sessions,
      signals |-> [ k \in expired_sessions |->
                      IF term_ok[k] THEN << "terminate" >>
                      ELSE << "terminate", "kill" >> ] ]
    : expired_sessions \in { { k \in DOMAIN sessions : expired(sessions[k], t) } } })

\* The threads around the session table.  `at` says where the caller's
\* thread and the reaper's thread stand; name, sid and answer are the
\* caller's tool call and what it computed under the lock; session is the
\* local variable `session` of read_output (the queue it points to stays
\* reachable when the entry has left the table); pipes and queues hold the
\* lines of each process; made counts the lines a process wrote; returned
\* collects, per session, the lines read_output gave back; removals counts
\* the deletions of each id; guarded says whether every access to the
\* table so far was made by the thread holding the lock.
NoRun ==
    [ at |-> [caller |-> "idle", reaper |-> "asleep"],
      name |-> "", sid |-> "", answer |-> [ok |-> TRUE, msg |-> ""],
      session |-> "", output_lines |-> <<>>, total_size |-> 0,
      pipes |-> << >>, queues |-> << >>, made |-> << >>,
      returned |-> << >>, removals |-> << >>, guarded |-> TRUE ]

\* A put that drops the line when the queue already holds one
queue_put_bounded(output_queue, item) ==
    IF output_queue = <<>> THEN << item >> ELSE output_queue

\* output_queue.put((stream_name, line)) on a queue.Queue() without maxsize
queue_put(output_queue, item) == Append(output_queue, item)

\* A get that hands out the first item and leaves it in the queue
queue_get_peek(output_queue) ==
    [empty |-> output_queue = <<>>, rest |-> output_queue]

\* output_queue.get(timeout=...): queue.Empty, or the first item out
queue_get(output_queue) ==
    [empty |-> output_queue = <<>>,
     rest |-> IF output_queue = <<>> THEN <<>> ELSE Tail(output_queue)]

\* A read_output whose `with` block reaches to the end of the function
lock_when_polling_kept(holder) == holder

\* the holder of the lock when read_output enters its polling loop: the
\* `with SESSION_LOCK:` block has ended, the lock is free
lock_when_polling(holder) == ""

\* run_command: the shell's answer is the environment's
run_command(a, env) ==
    IF "command" \notin a.has THEN [ok |-> FALSE, msg |-> "Execution failed"]
    ELSE IF env.run_ok THEN [ok |-> TRUE, msg |-> "output"]
    ELSE [ok |-> FALSE, msg |-> "Exit code"]

-----------------------------------------------------------------------------
(* PlanTracker *)

\* CURRENT_PLAN = None
NoPlan == [exists |-> FALSE, tasks |-> <<>>]

PlanOf(tasks) == [exists |-> TRUE, tasks |-> tasks]

\* json.dump(plan_data, f): the text of a plan file, one item per task
json_dump(plan_data) ==
    [ valid |-> TRUE,
      items |-> [ i \in 1..Len(plan_data.tasks) |->
                    << plan_data.tasks[i].id, plan_data.tasks[i].desc,
                       plan_data.tasks[i].status >> ] ]

\* A json.load that reads every task as pending
json_load_pending(text) ==
    PlanOf([ i \in 1..Len(text.items) |->
               [id |-> text.items[i][1], desc |-> text.items[i][2],
                status |-> "pending"] ])

\* json.load(f) of a text json.dump wrote whole
json_load(text) ==
    PlanOf([ i \in 1..Len(text.items) |->
               [id |-> text.items[i][1], desc |-> text.items[i][2],
                status |-> text.items[i][3]] ])

\* a plan file that open(plan_file, 'w') emptied and json.dump did not
\* finish
BrokenFile == [valid |-> FALSE, items |-> <<>>]

\* A save_plan_state that writes every plan to the same file
plan_file_shared(session_id) == "plan"

\* get_plan_dir() / f"{session_id}.json"
plan_file(session_id) == session_id

\* save_plan_state(session_id, plan_data).  save is what the filesystem
\* does with the write: "ok", "refused" (open fails, the file stays as it
\* was) or "partial" (the write fails after the file was opened); both
\* failures are caught and only printed as a warning
save_plan_state(files, session_id, plan_data, save) ==
    IF session_id = "" \/ save = "refused" THEN files
    ELSE [ k \in DOMAIN files \cup { plan_file(session_id) } |->
            IF k # plan_file(session_id) THEN files[k]
            ELSE IF save = "ok" THEN json_dump(plan_data)
            ELSE BrokenFile ]

\* load_plan_state(session_id): NoPlan models None
load_plan_state(files, session_id) ==
    IF session_id = "" \/ plan_file(session_id) \notin DOMAIN files THEN NoPlan
    ELSE IF ~ files[plan_file(session_id)].valid THEN NoPlan
    ELSE json_load(files[plan_file(session_id)])

\* An update that gives every task the new status
set_status_of_all(tasks, i, status) ==
    [ j \in 1..Len(tasks) |-> [tasks[j] EXCEPT !.status = status] ]

\* task["status"] = status
set_status(tasks, i, status) == [tasks EXCEPT ![i].status = status]

\* plan(action, tasks, task_id, status, reason) on the plan globals st =
\* [plan, decision, count, files]; sid is CURRENT_SESSION_ID
plan(st, sid, a, env) ==
    IF "action" \in a.has /\ a.action = "create"
    THEN IF "tasks" \notin a.has \/ a.tasks = <<>> \/ a.tasks_type # "list"
         THEN [ok |-> FALSE, msg |-> "Create action requires tasks", st |-> st]
         ELSE
             LET p == PlanOf([ i \in 1..Len(a.tasks) |->
                                 [id |-> i, desc |-> a.tasks[i], status |-> "pending"] ])
             IN  [ok |-> TRUE, msg |-> "plan",
                  st |-> [plan |-> p, decision |-> TRUE, count |-> 0,
                          files |-> save_plan_state(st.files, sid, p, env.save)]]
    ELSE IF "action" \in a.has /\ a.action = "skip"
    THEN [ok |-> TRUE, msg |-> "Plan skipped",
          st |-> [st EXCEPT !.decision = TRUE]]
    ELSE IF "action" \in a.has /\ a.action = "update"
    THEN IF ~ st.plan.exists
         THEN [ok |-> FALSE, msg |-> "No plan exists", st |-> st]
         ELSE IF "task_id" \notin a.has \/ "status" \notin a.has
         THEN [ok |-> FALSE, msg |-> "Update action requires task_id and status",
               st |-> st]
         ELSE IF \A i \in 1..Len(st.plan.tasks) : st.plan.tasks[i].id # a.task_id
         THEN [ok |-> FALSE, msg |-> "Task ID not found", st |-> st]
         ELSE
             LET i == CHOOSE k \in 1..Len(st.plan.tasks) :
                          /\ st.plan.tasks[k].id = a.task_id
                          /\ \A j \in 1..(k - 1) : st.plan.tasks[j].id # a.task_id
                 p == [st.plan EXCEPT
                         !.tasks = set_status(st.plan.tasks, i, a.status)]
             IN  [ok |-> TRUE, msg |-> "plan",
                  st |-> [plan |-> p, decision |-> st.decision, count |-> 0,
                          files |-> save_plan_state(st.files, sid, p, env.save)]]
    ELSE IF "action" \in a.has /\ a.action = "check"
    THEN IF ~ st.plan.exists
         THEN [ok |-> FALSE, msg |-> "No plan exists", st |-> st]
         ELSE [ok |-> TRUE, msg |-> "plan", st |-> st]
    ELSE [ok |-> FALSE, msg |-> "Unknown action", st |-> st]

\* the tasks of plan_data that are not completed, in the plan's order
RECURSIVE incomplete_tasks(_)
incomplete_tasks(tasks) ==
    IF tasks = <<>> THEN <<>>
    ELSE IF Head(tasks).status # "completed"
    THEN << Head(tasks) >> \o incomplete_tasks(Tail(tasks))
    ELSE incomplete_tasks(Tail(tasks))

\* [t for t in incomplete if t["status"] == "in_progress"]
RECURSIVE in_progress_tasks(_)
in_progress_tasks(tasks) ==
    IF tasks = <<>> THEN <<>>
    ELSE IF Head(tasks).status = "in_progress"
    THEN << Head(tasks) >> \o in_progress_tasks(Tail(tasks))
    ELSE in_progress_tasks(Tail(tasks))

\* a reminder: which message it is, the counter it quotes, and the ids of
\* the tasks it names; kind "none" models None (and the empty string)
Reminder(kind, quoted, named) ==
    [kind |-> kind, quoted |-> quoted, named |-> named]

NoReminder == Reminder("none", 0, <<>>)

\* get_plan_reminder() on the plan globals
get_plan_reminder(plan_data, decision, count) ==
    IF ~ plan_data.exists
    THEN IF ~ decision THEN Reminder("decide", 0, <<>>) ELSE NoReminder
    ELSE IF count >= 2 THEN Reminder("overdue", count, <<>>)
    ELSE IF incomplete_tasks(plan_data.tasks) = <<>> THEN NoReminder
    ELSE LET in_progress == in_progress_tasks(incomplete_tasks(plan_data.tasks))
         IN  IF in_progress # <<>> /\ count >= 1
             THEN Reminder("nudge", 0, << in_progress[1].id >>)
             ELSE NoReminder

\* get_plan_final_reminder() on the plan globals
get_plan_final_reminder(plan_data) ==
    IF ~ plan_data.exists THEN NoReminder
    ELSE LET incomplete == incomplete_tasks(plan_data.tasks)
         IN  IF incomplete = <<>> THEN NoReminder
             ELSE Reminder("incomplete", 0,
                           [ i \in 1..Len(incomplete) |-> incomplete[i].id ])

-----------------------------------------------------------------------------
(* PermissionGate *)

DESTRUCTIVE_TOOLS ==
    { "create_file", "edit_file", "run_command",
      "start_session", "send_input", "close_session",
      "delete_file", "delete_path", "mkdir" }

\* What the confirmation strategy answers when it is consulted: options 1-4
\* of the terminal prompt, the rows of the dialog or any tuple a callback
\* returns; "cancel" is EOF or an interrupt at the prompt and the dialog
\* that timed out.
Choices ==
    { "allow_once", "allow_session", "deny_continue", "deny_terminate", "cancel" }

\* An opening that forgets the approval set
pre_approved_bypass_only(tool_name) == BYPASS_PERMISSION

\* the two tests that open ask_user_permission
pre_approved(tool_name) ==
    BYPASS_PERMISSION \/ tool_name \in SESSION_APPROVED_TOOLS

\* A prompt whose option 3 falls through to the allow branch
prompt_result_deny_allows(choice) ==
    IF choice \in { "allow_once", "deny_continue" }
    THEN [allowed |-> TRUE, terminate |-> FALSE, remember |-> FALSE]
    ELSE IF choice = "allow_session"
    THEN [allowed |-> TRUE, terminate |-> FALSE, remember |-> TRUE]
    ELSE [allowed |-> FALSE, terminate |-> TRUE, remember |-> FALSE]

\* A prompt that remembers every allowed tool
prompt_result_always_remembers(choice) ==
    IF choice \in { "allow_once", "allow_session" }
    THEN [allowed |-> TRUE, terminate |-> FALSE, remember |-> TRUE]
    ELSE IF choice = "deny_continue"
    THEN [allowed |-> FALSE, terminate |-> FALSE, remember |-> FALSE]
    ELSE [allowed |-> FALSE, terminate |-> TRUE, remember |-> FALSE]

\* A prompt for which every denial ends the request
prompt_result_deny_terminates(choice) ==
    IF choice = "allow_once"
    THEN [allowed |-> TRUE, terminate |-> FALSE, remember |-> FALSE]
    ELSE IF choice = "allow_session"
    THEN [allowed |-> TRUE, terminate |-> FALSE, remember |-> TRUE]
    ELSE [allowed |-> FALSE, terminate |-> TRUE, remember |-> FALSE]

\* What the strategy's answer becomes: the tuple the callback returns as
\* ask_user_permission reads it, and the branches of the terminal prompt.
\* remember is SESSION_APPROVED_TOOLS.add(tool_name).
prompt_result(choice) ==
    IF choice = "allow_once"
    THEN [allowed |-> TRUE, terminate |-> FALSE, remember |-> FALSE]
    ELSE IF choice = "allow_session"
    THEN [allowed |-> TRUE, terminate |-> FALSE, remember |-> TRUE]
    ELSE IF choice = "deny_continue"
    THEN [allowed |-> FALSE, terminate |-> FALSE, remember |-> FALSE]
    ELSE [allowed |-> FALSE, terminate |-> TRUE, remember |-> FALSE]

\* ask_user_permission(tool_name, arguments) when the strategy answers
\* choice.  approved is SESSION_APPROVED_TOOLS after the call and fs the
\* filesystem after the dry-run preview of the terminal prompt.
ask_user_permission(tool_name, a, choice) ==
    IF pre_approved(tool_name)
    THEN [allowed |-> TRUE, terminate |-> FALSE, consulted |-> FALSE,
          approved |-> SESSION_APPROVED_TOOLS, fs |-> fs]
    ELSE The({
        [allowed |-> answer.allowed, terminate |-> answer.terminate,
         consulted |-> TRUE,
         approved |-> IF answer.remember
                      THEN SESSION_APPROVED_TOOLS \cup { tool_name }
                      ELSE SESSION_APPROVED_TOOLS,
         fs |-> IF ~ PERMISSION_CALLBACK /\ tool_name = "edit_file"
                THEN edit_file(fs, WORK_DIR, BYPASS_WORK_DIR_LIMIT,
                               [a EXCEPT !.dry_run = TRUE]).fs
                ELSE fs]
        : answer \in { prompt_result(choice) } })

-----------------------------------------------------------------------------
(* Initial values shared by the specifications *)

\* what a step of the SessionManager did, for the steps that are about it
NoSess ==
    [ sid |-> "", has_text |-> FALSE, spawn_ok |-> TRUE, write_ok |-> TRUE,
      spawned |-> FALSE, replaced |-> FALSE, wrote |-> <<>>,
      signals |-> <<>>, exited |-> FALSE, script |-> <<>>,
      lines |-> <<>>, marker |-> FALSE, polls |-> 0,
      reaped |-> {}, stubborn |-> {} ]

\* what a step of a file write was about: the arguments of the call, and
\* applied and diff of edit_file's result
NoEdit ==
    [args |-> DefaultArgs, applied |-> FALSE, diff |-> <<>>, patch |-> NoPatch,
     content |-> <<>>]

NoCall ==
    [ name |-> "none", act |-> "", outcome |-> "none", ok |-> FALSE,
      path |-> <<>>, msg |-> "", consulted |-> FALSE, choice |-> "none",
      ran |-> FALSE, log |-> {}, changed |-> FALSE, sess |-> NoSess,
      edit |-> NoEdit ]

NoPathOut == [done |-> FALSE, resolved |-> <<>>, ok |-> FALSE, msg |-> "none"]

InitGlobals ==
    /\ CURRENT_PLAN = NoPlan
    /\ CURRENT_SESSION_ID = ""
    /\ PLAN_DECISION_MADE = FALSE
    /\ SIGNIFICANT_ACTIONS_COUNT = 0
    /\ SESSION_APPROVED_TOOLS = {}
    /\ ACTIVE_SESSIONS = << >>
    /\ fs = InitialFs
    /\ planFiles = << >>
    /\ planLog = << >>
    /\ SESSION_LOCK = ""
    /\ run = NoRun
    /\ host = "running"
    /\ last = NoCall
    /\ remembered = {}
    /\ now = 0
    /\ writer = NoWrite

-----------------------------------------------------------------------------
(* Dispatcher: execute_tool *)

MaxActions == 2

significant_action_tools ==
    { "read_file", "edit_file", "create_file", "delete_file", "delete_path",
      "mkdir", "run_command" }

FsTools ==
    { "read_file", "create_file", "edit_file", "list_directory", "mkdir",
      "delete_file", "delete_path", "search_context", "search_symbol" }

SessionTools ==
    { "start_session", "send_input", "read_output", "close_session",
      "list_sessions" }

\* A gate that stops only the destructive tools
plan_gate_blocks_destructive_only(name) ==
    name \in DESTRUCTIVE_TOOLS /\ ~ PLAN_DECISION_MADE /\ ~ BYPASS_PLAN_CHECK

\* A gate that asks for a task list instead of a decision
plan_gate_blocks_without_plan(name) ==
    name # "plan" /\ ~ CURRENT_PLAN.exists /\ ~ BYPASS_PLAN_CHECK

\* the first test of execute_tool
plan_gate_blocks(name) ==
    name # "plan" /\ ~ PLAN_DECISION_MADE /\ ~ BYPASS_PLAN_CHECK

\* what a call that stops before the if/elif chain leaves as it was
NotRun(fsv, count) ==
    [ok |-> FALSE, msg |-> "", exc |-> FALSE, fs |-> fsv, log |-> {},
     sessions |-> ACTIVE_SESSIONS,
     st |-> [plan |-> CURRENT_PLAN, decision |-> PLAN_DECISION_MADE,
             count |-> count, files |-> planFiles]]

\* the if/elif chain of execute_tool: the tool function that name selects,
\* run on filesystem fsv with the counter already at count
tool_body(name, a, env, fsv, count) ==
    LET st == [plan |-> CURRENT_PLAN, decision |-> PLAN_DECISION_MADE,
               count |-> count, files |-> planFiles]
        same == [ok |-> FALSE, msg |-> "Unknown tool", exc |-> FALSE,
                 fs |-> fsv, log |-> {}, sessions |-> ACTIVE_SESSIONS, st |-> st]
        fsr == CASE name = "read_file" ->
                        read_file(fsv, WORK_DIR, BYPASS_WORK_DIR_LIMIT, a)
                 [] name = "create_file" ->
                        create_file(fsv, WORK_DIR, BYPASS_WORK_DIR_LIMIT, a)
                 [] name = "edit_file" ->
                        edit_file(fsv, WORK_DIR, BYPASS_WORK_DIR_LIMIT, a)
                 [] name = "list_directory" ->
                        list_directory(fsv, WORK_DIR, BYPASS_WORK_DIR_LIMIT, a)
                 [] name = "mkdir" ->
                        mkdir(fsv, WORK_DIR, BYPASS_WORK_DIR_LIMIT, a)
                 [] name = "delete_file" ->
                        delete_file(fsv, WORK_DIR, BYPASS_WORK_DIR_LIMIT, a)
                 [] name = "delete_path" ->
                        delete_path(fsv, WORK_DIR, BYPASS_WORK_DIR_LIMIT, a)
                 [] name = "search_context" ->
                        search_context(fsv, WORK_DIR, BYPASS_WORK_DIR_LIMIT, a)
                 [] OTHER ->
                        search_symbol(fsv, WORK_DIR, BYPASS_WORK_DIR_LIMIT, a)
        ssr == CASE name = "start_session" ->
                        start_session(ACTIVE_SESSIONS, now, a, env)
                 [] name = "send_input" ->
                        send_input(ACTIVE_SESSIONS, now, a, env)
                 [] name = "read_output" ->
                        read_output(ACTIVE_SESSIONS, now, a, env)
                 [] name = "close_session" ->
                        close_session(ACTIVE_SESSIONS, now, a, env)
                 [] OTHER ->
                        list_sessions(ACTIVE_SESSIONS, now, a, env)
    IN  IF name \in FsTools
        THEN [same EXCEPT !.ok = fsr.ok, !.msg = fsr.msg, !.exc = fsr.exc,
                          !.fs = fsr.fs, !.log = fsr.log]
        ELSE IF name \in SessionTools
        THEN [same EXCEPT !.ok = ssr.ok, !.msg = ssr.msg, !.sessions = ssr.sessions]
        ELSE IF name = "plan"
        THEN LET pr == plan(st, CURRENT_SESSION_ID, a, env)
             IN  [same EXCEPT !.ok = pr.ok, !.msg = pr.msg, !.st = pr.st]
        ELSE IF name = "run_command"
        THEN LET rr == run_command(a, env)
             IN  [same EXCEPT !.ok = rr.ok, !.msg = rr.msg]
        ELSE IF name \in { "fetch_url", "web_search" }
        THEN [same EXCEPT !.ok = env.run_ok,
                          !.msg = IF env.run_ok THEN "page" ELSE "Fetch failed"]
        ELSE same

\* the path a filesystem tool is called on
PathArg(name, a) ==
    IF "path" \in a.has THEN a.path
    ELSE IF name \in { "list_directory", "search_context", "search_symbol" }
    THEN << "." >>
    ELSE <<>>

\* What the caller of execute_tool observes, and what the call did.  msg
\* holds the words the message starts with; changed tells whether the call
\* left the filesystem different, log which filesystem calls it made.
Observed(name, a, outcome, ok, msg, consulted, choice, ran, log, changed) ==
    [ name |-> name,
      act |-> IF name = "plan" /\ "action" \in a.has THEN a.action ELSE "",
      path |-> IF name \in FsTools THEN PathArg(name, a) ELSE <<>>,
      outcome |-> outcome, ok |-> ok, msg |-> msg,
      consulted |-> consulted,
      choice |-> IF consulted THEN choice ELSE "none",
      ran |-> ran, log |-> log, changed |-> changed, sess |-> NoSess,
      edit |-> IF name = "plan" THEN [NoEdit EXCEPT !.args = a] ELSE NoEdit ]

\* A dispatcher that ignores EXIT_ON_TERMINATE
terminate_outcome_always_exits == "exit"

\* sys.exit(1) or raise PermissionDeniedTerminate
terminate_outcome == IF EXIT_ON_TERMINATE THEN "exit" ELSE "raise"

execute_tool(name, a, choice, env) ==
    /\ host = "running"
    /\ UNCHANGED << WORK_DIR, BYPASS_WORK_DIR_LIMIT, BYPASS_PERMISSION,
                    BYPASS_PLAN_CHECK, EXIT_ON_TERMINATE, PERMISSION_CALLBACK,
                    CURRENT_SESSION_ID, SESSION_LOCK, run, now, pathIn, pathOut,
                    writer >>
    /\ IF plan_gate_blocks(name)
       THEN /\ last' = Observed(name, a, "return", FALSE, "BLOCKED",
                                FALSE, choice, FALSE, {}, FALSE)
            /\ UNCHANGED << CURRENT_PLAN, PLAN_DECISION_MADE,
                            SIGNIFICANT_ACTIONS_COUNT, SESSION_APPROVED_TOOLS,
                            ACTIVE_SESSIONS, fs, planFiles, planLog, SESSION_LOCK, run, host, remembered >>
       ELSE
         \* each value is bound once: the permission answer, the counter
         \* after the increment, and what the tool function returns
         \E perm \in { IF name \in DESTRUCTIVE_TOOLS
                       THEN ask_user_permission(name, a, choice)
                       ELSE [allowed |-> TRUE, terminate |-> FALSE,
                             consulted |-> FALSE,
                             approved |-> SESSION_APPROVED_TOOLS, fs |-> fs] } :
         \E count \in { IF name \in significant_action_tools /\ CURRENT_PLAN.exists
                        THEN SIGNIFICANT_ACTIONS_COUNT + 1
                        ELSE SIGNIFICANT_ACTIONS_COUNT } :
         \E r \in { IF perm.allowed
                    THEN tool_body(name, a, env, perm.fs, count)
                    ELSE NotRun(perm.fs, count) } :
             /\ SESSION_APPROVED_TOOLS' = perm.approved
             /\ remembered' = IF perm.consulted /\ choice = "allow_session"
                              THEN remembered \cup { name } ELSE remembered
             /\ IF ~ perm.allowed
                THEN /\ fs' = perm.fs
                     /\ UNCHANGED << CURRENT_PLAN, PLAN_DECISION_MADE,
                                     SIGNIFICANT_ACTIONS_COUNT, ACTIVE_SESSIONS,
                                     planFiles, planLog, SESSION_LOCK, run >>
                     /\ IF perm.terminate
                        THEN /\ host' = IF terminate_outcome = "exit"
                                        THEN "exited" ELSE host
                             /\ last' = Observed(name, a, terminate_outcome, FALSE,
                                            IF terminate_outcome = "exit"
                                            THEN "status 1"
                                            ELSE "PermissionDeniedTerminate",
                                            TRUE, choice, FALSE, {},
                                            perm.fs # fs)
                        ELSE /\ host' = host
                             /\ last' = Observed(name, a, "return", FALSE,
                                            "Denied", TRUE, choice, FALSE, {},
                                            perm.fs # fs)
                ELSE /\ count <= MaxActions
                     /\ fs' = r.fs
                     /\ ACTIVE_SESSIONS' = r.sessions
                     /\ CURRENT_PLAN' = r.st.plan
                     /\ PLAN_DECISION_MADE' = r.st.decision
                     /\ SIGNIFICANT_ACTIONS_COUNT' = r.st.count
                     /\ planFiles' = r.st.files
                     /\ planLog' =
                          IF name = "plan" /\ r.ok /\ "action" \in a.has
                             /\ a.action \in { "create", "update" }
                             /\ CURRENT_SESSION_ID # ""
                          THEN [ k \in DOMAIN planLog \cup { CURRENT_SESSION_ID } |->
                                   IF k = CURRENT_SESSION_ID
                                   THEN [plan |-> r.st.plan, save |-> env.save]
                                   ELSE planLog[k] ]
                          ELSE planLog
                     /\ host' = host
                     /\ last' = Observed(name, a,
                                    IF r.exc THEN "raise" ELSE "return",
                                    r.ok, r.msg, perm.consulted, choice,
                                    TRUE, r.log, r.fs # fs)

\* set_session_id(session_id): a new conversation session begins
set_session_id(session_id) ==
    /\ host = "running"
    /\ CURRENT_SESSION_ID' = session_id
    /\ PLAN_DECISION_MADE' = FALSE
    /\ SIGNIFICANT_ACTIONS_COUNT' = 0
    /\ SESSION_APPROVED_TOOLS' = {}
    /\ remembered' = {}
    /\ last' = [NoCall EXCEPT !.name = "set_session_id"]
    /\ UNCHANGED << CURRENT_PLAN, WORK_DIR, BYPASS_WORK_DIR_LIMIT,
                    BYPASS_PERMISSION, BYPASS_PLAN_CHECK, EXIT_ON_TERMINATE,
                    PERMISSION_CALLBACK, ACTIVE_SESSIONS, fs, planFiles, planLog,
                    SESSION_LOCK, run, host,
                    now, pathIn, pathOut, writer >>

\* set_session_id(session_id) ; restore_plan(session_id): a conversation
\* session is resumed
resume_session(session_id) ==
    LET plan_data == load_plan_state(planFiles, session_id)
    IN  /\ host = "running"
        /\ CURRENT_SESSION_ID' = session_id
        /\ SIGNIFICANT_ACTIONS_COUNT' = 0
        /\ SESSION_APPROVED_TOOLS' = {}
        /\ remembered' = {}
        /\ IF plan_data.exists
           THEN CURRENT_PLAN' = plan_data /\ PLAN_DECISION_MADE' = TRUE
           ELSE CURRENT_PLAN' = CURRENT_PLAN /\ PLAN_DECISION_MADE' = FALSE
        /\ last' = [NoCall EXCEPT !.name = "restore_plan"]
        /\ UNCHANGED << WORK_DIR, BYPASS_WORK_DIR_LIMIT, BYPASS_PERMISSION,
                        BYPASS_PLAN_CHECK, EXIT_ON_TERMINATE,
                        PERMISSION_CALLBACK, ACTIVE_SESSIONS, fs, planFiles, planLog, SESSION_LOCK, run,
                        host, now, pathIn, pathOut, writer >>

reset_session_permissions ==
    /\ host = "running"
    /\ SESSION_APPROVED_TOOLS' = {}
    /\ remembered' = {}
    /\ last' = [NoCall EXCEPT !.name = "reset_session_permissions"]
    /\ UNCHANGED << CURRENT_PLAN, CURRENT_SESSION_ID, PLAN_DECISION_MADE,
                    SIGNIFICANT_ACTIONS_COUNT, WORK_DIR, BYPASS_WORK_DIR_LIMIT,
                    BYPASS_PERMISSION, BYPASS_PLAN_CHECK, EXIT_ON_TERMINATE,
                    PERMISSION_CALLBACK, ACTIVE_SESSIONS, fs, planFiles, planLog,
                    SESSION_LOCK, run, host,
                    now, pathIn, pathOut, writer >>

-----------------------------------------------------------------------------
(* Specification SpecPath: the sandbox check as a function of the path *)

PathAlphabet == { "/", ".", "w", "x", "l", "~" }

PathInputs == SeqsUpTo(PathAlphabet, MaxPathLen)

\* --work-dir values: /w, the filesystem root, the link /l, and none (cwd)
WorkDirArgs == { pW, pRoot, pL, <<>> }

InitPath ==
    /\ InitGlobals
    /\ BYPASS_PERMISSION = FALSE
    /\ BYPASS_PLAN_CHECK = FALSE
    /\ EXIT_ON_TERMINATE = TRUE
    /\ PERMISSION_CALLBACK = FALSE
    /\ BYPASS_WORK_DIR_LIMIT \in BOOLEAN
    /\ \E wd \in WorkDirArgs : WORK_DIR = set_work_dir(fs, wd)
    /\ pathIn \in PathInputs
    /\ pathOut = NoPathOut

\* validate_path(resolve_path(pathIn))
CheckPath ==
    /\ ~ pathOut.done
    /\ LET resolved == resolve_path(fs, WORK_DIR, pathIn)
           v == validate_path(fs, WORK_DIR, BYPASS_WORK_DIR_LIMIT, resolved)
       IN  pathOut' = [done |-> TRUE, resolved |-> resolved,
                       ok |-> v.ok, msg |-> v.msg]
    /\ UNCHANGED << CURRENT_PLAN, CURRENT_SESSION_ID, PLAN_DECISION_MADE,
                    SIGNIFICANT_ACTIONS_COUNT, WORK_DIR, BYPASS_WORK_DIR_LIMIT,
                    BYPASS_PERMISSION, BYPASS_PLAN_CHECK, EXIT_ON_TERMINATE,
                    SESSION_APPROVED_TOOLS, PERMISSION_CALLBACK,
                    ACTIVE_SESSIONS, fs, planFiles, planLog, SESSION_LOCK, run, host, last, remembered,
                    now, pathIn, writer >>

NextPath == CheckPath

SpecPath == InitPath /\ [][NextPath]_vars

\* The symlink-resolved absolute form of a path, as a list of components
CanonicalComps(p) ==
    LET e == expanduser(p)
    IN  realcomps(fs, IF isabs(e) THEN e ELSE join(WORK_DIR, e))

\* p is the work root or lies beneath it, component by component
InsideWorkRoot(p) == IsPrefixSeq(realcomps(fs, WORK_DIR), CanonicalComps(p))

\* C9: with bypass off validate_path(resolve_path(p)) succeeds exactly when
\* the symlink-resolved absolute form of p is WorkRoot or lies beneath it;
\* with bypass on every path is accepted.
C9_SandboxExact ==
    pathOut.done =>
        (pathOut.ok <=> (BYPASS_WORK_DIR_LIMIT \/ InsideWorkRoot(pathIn)))

\* The same statement for a work root other than the filesystem root
C9_NonRootWorkDir ==
    (pathOut.done /\ WORK_DIR # pRoot) =>
        (pathOut.ok <=> (BYPASS_WORK_DIR_LIMIT \/ InsideWorkRoot(pathIn)))

-----------------------------------------------------------------------------
(* Inputs of the dispatcher specifications *)

pF == << "f" >>
pDot == << "." >>
pOutside == << "/", "x", "/", "f" >>
pViaLink == << "l", "/", "f" >>
pSibling == << ".", ".", "/", "w", "x", "/", "f" >>

txtA == << "a" >>

Args(keys) == [DefaultArgs EXCEPT !.has = keys]

Call(name, args) == [name |-> name, args |-> args]

PlanCalls ==
    { Call("plan", a) : a \in
        { [Args({ "action", "tasks" }) EXCEPT !.action = "create",
                                               !.tasks = << "A" >>],
          [Args({ "action", "tasks" }) EXCEPT !.action = "create"],
          [Args({ "action" }) EXCEPT !.action = "create"],
          [Args({ "action", "tasks" }) EXCEPT !.action = "create",
                                               !.tasks = << "A" >>,
                                               !.tasks_type = "str"],
          [Args({ "action" }) EXCEPT !.action = "skip"],
          [Args({ "action", "task_id", "status" }) EXCEPT
                !.action = "update", !.task_id = 1, !.status = "completed"],
          [Args({ "action", "task_id" }) EXCEPT !.action = "update", !.task_id = 1],
          [Args({ "action" }) EXCEPT !.action = "check"],
          [Args({ "action" }) EXCEPT !.action = "bogus"],
          Args({}) } }

\* the destructive file tools on path p
WriteCalls(p) ==
    { Call("create_file",
           [Args({ "path", "content" }) EXCEPT !.path = p, !.content = txtA]),
      Call("edit_file",
           [Args({ "path", "content", "mode" }) EXCEPT
                !.path = p, !.content = txtA, !.mode = "overwrite"]),
      Call("delete_file", [Args({ "path" }) EXCEPT !.path = p]),
      Call("delete_path", [Args({ "path" }) EXCEPT !.path = p]) }

\* the file tools that change nothing, on path p
ReadCalls(p) ==
    { Call("read_file", [Args({ "path" }) EXCEPT !.path = p]),
      Call("list_directory", [Args({ "path" }) EXCEPT !.path = p]),
      Call("search_context", [Args({ "path" }) EXCEPT !.path = p]),
      Call("search_symbol",
           [Args({ "path", "symbol" }) EXCEPT !.path = p, !.symbol = txtA]) }

\* calls that leave out the required path
NoPathCalls ==
    { Call("read_file", Args({})),
      Call("create_file", [Args({ "content" }) EXCEPT !.content = txtA]) }

ShellCalls ==
    { Call("run_command", [Args({ "command" }) EXCEPT !.command = txtA]),
      Call("start_session", [Args({ "command" }) EXCEPT !.command = txtA]),
      Call("send_input",
           [Args({ "session_id", "input_text" }) EXCEPT
                !.session_id = "s1", !.input_text = txtA]),
      Call("close_session", [Args({ "session_id" }) EXCEPT !.session_id = "s1"]) }

QuietCalls ==
    { Call("read_output", [Args({ "session_id" }) EXCEPT !.session_id = "s1"]),
      Call("list_sessions", Args({})),
      Call("fetch_url", Args({})),
      Call("web_search", Args({})),
      Call("no_such_tool", Args({})) }

Envs ==
    { [sid |-> "s1", spawn_ok |-> TRUE, write_ok |-> TRUE, run_ok |-> ok,
       term_ok |-> TRUE, polls |-> <<>>, save |-> "ok"] :
        ok \in BOOLEAN }

\* The strategy's answer is an input of the calls that can reach the
\* permission gate, the system's answers of the calls that reach the system
ChoicesFor(name, choices) ==
    IF name \in DESTRUCTIVE_TOOLS THEN choices ELSE { "allow_once" }

EnvsFor(name, envs) ==
    IF name \in { "run_command", "fetch_url" }
    THEN envs
    ELSE { e \in envs : e.run_ok }

ConversationIds == { "c1" }

-----------------------------------------------------------------------------
(* Specification SpecGate: the plan gate and the tool boundary.  The host   *)
(* has installed a confirmation callback and catches the termination.      *)

GateChoices == { "allow_once", "deny_continue", "deny_terminate" }

GateCalls ==
    PlanCalls \cup WriteCalls(pF) \cup ReadCalls(pF) \cup NoPathCalls
        \cup { Call("mkdir", [Args({ "path" }) EXCEPT !.path = pDot]) }
        \cup ShellCalls \cup QuietCalls

InitGate ==
    /\ InitGlobals
    /\ BYPASS_PERMISSION = FALSE
    /\ BYPASS_PLAN_CHECK \in BOOLEAN
    /\ EXIT_ON_TERMINATE = FALSE
    /\ PERMISSION_CALLBACK = TRUE
    /\ BYPASS_WORK_DIR_LIMIT = FALSE
    /\ WORK_DIR = set_work_dir(fs, pW)
    /\ pathIn = <<>>
    /\ pathOut = NoPathOut

GateExecuteTool ==
    \E c \in GateCalls :
        \E choice \in ChoicesFor(c.name, GateChoices),
           env \in EnvsFor(c.name, Envs) :
            execute_tool(c.name, c.args, choice, env)

GateNewSession == \E sid \in ConversationIds : set_session_id(sid)

GateResumeSession == \E sid \in ConversationIds : resume_session(sid)

NextGate ==
    \/ GateExecuteTool
    \/ GateNewSession
    \/ GateResumeSession

SpecGate == InitGate /\ [][NextGate]_vars

\* the step is a call of execute_tool
ToolStep ==
    last'.name \notin { "none", "set_session_id", "restore_plan",
                        "reset_session_permissions" }

\* C1: while no plan decision has been made and the plan-check bypass is
\* off, a call of any tool other than "plan" returns (false, BLOCKED ...),
\* the permission strategy is not consulted, the significant-action counter
\* is not incremented and the tool does not run: nothing changes.
C1_PlanGateBlocks ==
    [][ ( /\ ToolStep
          /\ ~ PLAN_DECISION_MADE
          /\ ~ BYPASS_PLAN_CHECK
          /\ last'.name # "plan" )
        => ( /\ last'.outcome = "return"
             /\ ~ last'.ok
             /\ last'.msg = "BLOCKED"
             /\ ~ last'.consulted
             /\ ~ last'.ran
             /\ UNCHANGED << SIGNIFICANT_ACTIONS_COUNT, SESSION_APPROVED_TOOLS,
                             CURRENT_PLAN, PLAN_DECISION_MADE, ACTIVE_SESSIONS,
                             fs, planFiles, host >> ) ]_vars

\* a destructive, significant tool was blocked while a task list from the
\* session before was still loaded
C1_Witness ==
    /\ last.name = "edit_file"
    /\ last.msg = "BLOCKED"
    /\ ~ PLAN_DECISION_MADE
    /\ CURRENT_PLAN.exists

\* C2: a tool call moves the session out of NoDecision exactly when it is a
\* successful plan(create) or plan(skip); plan(update), plan(check), a
\* rejected plan(create) and an unknown action leave it there.  Once the
\* decision is made no tool call undoes it and none is blocked by the plan
\* gate, until set_session_id begins the next session.
C2_DecisionTransitions ==
    [][ ToolStep =>
          /\ ~ PLAN_DECISION_MADE =>
                ( PLAN_DECISION_MADE' <=>
                    ( /\ last'.name = "plan"
                      /\ last'.act \in { "create", "skip" }
                      /\ last'.ok ) )
          /\ PLAN_DECISION_MADE =>
                ( PLAN_DECISION_MADE' /\ last'.msg # "BLOCKED" ) ]_vars

\* after plan(skip) a read_file call ran with the plan check on
C2_Witness ==
    /\ ~ BYPASS_PLAN_CHECK
    /\ PLAN_DECISION_MADE
    /\ ~ CURRENT_PLAN.exists
    /\ last.name = "read_file"
    /\ last.ran

\* C6: when the strategy answers deny-and-continue, execute_tool returns
\* (false, "Denied: ...") without running the tool, and the approval set,
\* the plan, the significant-action counter, the session table and the
\* filesystem are unchanged; the host goes on.
C6_DenyAndContinue ==
    [][ ( /\ ToolStep
          /\ last'.consulted
          /\ last'.choice = "deny_continue" )
        => ( /\ last'.outcome = "return"
             /\ ~ last'.ok
             /\ last'.msg = "Denied"
             /\ ~ last'.ran
             /\ UNCHANGED << SESSION_APPROVED_TOOLS, CURRENT_PLAN,
                             PLAN_DECISION_MADE, SIGNIFICANT_ACTIONS_COUNT,
                             ACTIVE_SESSIONS, fs, planFiles, host >> ) ]_vars

\* a significant tool was denied while a plan was being tracked and an
\* action had been counted
C6_Witness ==
    /\ last.name = "delete_file"
    /\ last.choice = "deny_continue"
    /\ last.msg = "Denied"
    /\ CURRENT_PLAN.exists
    /\ SIGNIFICANT_ACTIONS_COUNT = 1
    /\ host = "running"

\* C8: execute_tool raises nothing across the tool boundary, whatever the
\* tool name and the argument map; the one exception is the
\* deny-and-terminate outcome of the permission gate.
C8_NeverRaises ==
    last.outcome = "raise" =>
        ( last.consulted /\ last.choice \in { "deny_terminate", "cancel" } )

-----------------------------------------------------------------------------
(* Specification SpecPerm: the permission gate under each host's           *)
(* configuration, with the plan check bypassed.                            *)

\* set_bypass_permission, set_exit_on_terminate, set_permission_callback as
\* the hosts call them: the command line, the terminal front end, the MCP
\* server, and a host that takes the callback and catches the termination
HostConfigs ==
    { [bypass |-> FALSE, exit |-> TRUE, callback |-> FALSE],
      [bypass |-> FALSE, exit |-> TRUE, callback |-> TRUE],
      [bypass |-> TRUE, exit |-> FALSE, callback |-> FALSE],
      [bypass |-> FALSE, exit |-> FALSE, callback |-> TRUE] }

\* the tools for which the user answers allow-and-remember
RememberTools == { "create_file", "run_command" }

PermChoicesFor(name) ==
    IF name \in RememberTools THEN Choices ELSE Choices \ { "allow_session" }

PermCalls ==
    WriteCalls(pF) \cup ShellCalls
        \cup { Call("mkdir", [Args({ "path" }) EXCEPT !.path = pDot]),
               Call("read_file", [Args({ "path" }) EXCEPT !.path = pF]) }

InitPerm ==
    /\ InitGlobals
    /\ \E h \in HostConfigs :
          /\ BYPASS_PERMISSION = h.bypass
          /\ EXIT_ON_TERMINATE = h.exit
          /\ PERMISSION_CALLBACK = h.callback
    /\ BYPASS_PLAN_CHECK = TRUE
    /\ BYPASS_WORK_DIR_LIMIT = FALSE
    /\ WORK_DIR = set_work_dir(fs, pW)
    /\ pathIn = <<>>
    /\ pathOut = NoPathOut

PermExecuteTool ==
    \E c \in PermCalls :
        \E choice \in ChoicesFor(c.name, PermChoicesFor(c.name)),
           env \in EnvsFor(c.name, Envs) :
            execute_tool(c.name, c.args, choice, env)

PermNewSession == \E sid \in ConversationIds : set_session_id(sid)

PermResetPermissions == reset_session_permissions

NextPerm ==
    \/ PermExecuteTool
    \/ PermNewSession
    \/ PermResetPermissions

SpecPerm == InitPerm /\ [][NextPerm]_vars

\* C3: a destructive tool's operation runs only if the permission bypass
\* is on, the tool was in the approval set, or the strategy answered allow
\* for that very call; it never runs on a call the strategy denied.
C3_NoRunWithoutPermission ==
    /\ ( last.ran /\ last.name \in DESTRUCTIVE_TOOLS ) =>
          \/ BYPASS_PERMISSION
          \/ ~ last.consulted /\ last.name \in SESSION_APPROVED_TOOLS
          \/ last.consulted /\ last.choice \in { "allow_once", "allow_session" }
    /\ last.choice \in { "deny_continue", "deny_terminate", "cancel" } =>
          ~ last.ran /\ ~ last.changed /\ last.log = {}

\* the user allowed one delete_file call, and the file is gone
C3_Witness ==
    /\ last.name = "delete_file"
    /\ last.consulted
    /\ last.choice = "allow_once"
    /\ last.ran
    /\ last.ok
    /\ last.changed

\* C4: the gate consults the strategy only when the permission bypass is
\* off and the tool is not in the approval set; when the bypass is on or
\* the tool is already approved the call is allowed without consulting the
\* strategy and the approval set stays as it is.
C4_ConsultOnlyWhenNeeded ==
    [][ ( ToolStep /\ last'.name \in DESTRUCTIVE_TOOLS ) =>
          /\ last'.consulted =>
                ( ~ BYPASS_PERMISSION /\ last'.name \notin SESSION_APPROVED_TOOLS )
          /\ ( BYPASS_PERMISSION \/ last'.name \in SESSION_APPROVED_TOOLS ) =>
                ( /\ ~ last'.consulted
                  /\ last'.ran
                  /\ SESSION_APPROVED_TOOLS' = SESSION_APPROVED_TOOLS ) ]_vars

\* a remembered tool ran again with the bypass off and no question asked
C4_Witness ==
    /\ ~ BYPASS_PERMISSION
    /\ last.name = "run_command"
    /\ "run_command" \in SESSION_APPROVED_TOOLS
    /\ ~ last.consulted
    /\ last.ran

\* C5: a tool is in the approval set exactly when the strategy answered
\* allow-and-remember for that tool since the last set_session_id or
\* reset_session_permissions; right after either of them the set is empty.
C5_ApprovalSetExact ==
    /\ SESSION_APPROVED_TOOLS = remembered
    /\ last.name \in { "set_session_id", "reset_session_permissions" } =>
          SESSION_APPROVED_TOOLS = {}

\* create_file is remembered, and an allow-once for run_command added nothing
C5_Witness ==
    /\ SESSION_APPROVED_TOOLS = { "create_file" }
    /\ last.name = "run_command"
    /\ last.consulted
    /\ last.choice = "allow_once"
    /\ last.ran

\* C7: when the strategy answers deny-and-terminate, or the prompt meets
\* EOF or an interrupt, or the dialog times out, the tool does not run and
\* execute_tool does not return: the process ends with status 1 when
\* EXIT_ON_TERMINATE is true, PermissionDeniedTerminate is raised when not.
C7_DenyAndTerminate ==
    ( last.consulted /\ last.choice \in { "deny_terminate", "cancel" } ) =>
        /\ ~ last.ran
        /\ ~ last.changed
        /\ last.outcome # "return"
        /\ EXIT_ON_TERMINATE =>
              ( last.outcome = "exit" /\ last.msg = "status 1" /\ host = "exited" )
        /\ ~ EXIT_ON_TERMINATE =>
              ( /\ last.outcome = "raise"
                /\ last.msg = "PermissionDeniedTerminate"
                /\ host = "running" )

\* the prompt was cancelled under a host that catches the termination
C7_Witness ==
    /\ ~ EXIT_ON_TERMINATE
    /\ last.name = "start_session"
    /\ last.choice = "cancel"
    /\ last.outcome = "raise"

-----------------------------------------------------------------------------
(* Specification SpecFs: the filesystem tools on paths inside and outside  *)
(* the work directory, with the plan check and the permission gate         *)
(* bypassed.                                                               *)

FsPaths == { pF, pDot, pOutside, pViaLink, pSibling }

FsCalls ==
    UNION { WriteCalls(p) \cup ReadCalls(p)
                \cup { Call("mkdir", [Args({ "path" }) EXCEPT !.path = p]) }
            : p \in FsPaths }
        \cup { Call("search_symbol", [Args({ "path" }) EXCEPT !.path = p])
               : p \in { pF, pOutside } }

InitFs ==
    /\ InitGlobals
    /\ BYPASS_PERMISSION = TRUE
    /\ BYPASS_PLAN_CHECK = TRUE
    /\ EXIT_ON_TERMINATE = TRUE
    /\ PERMISSION_CALLBACK = FALSE
    /\ BYPASS_WORK_DIR_LIMIT \in BOOLEAN
    /\ WORK_DIR = set_work_dir(fs, pW)
    /\ pathIn = <<>>
    /\ pathOut = NoPathOut

FsExecuteTool ==
    \E c \in FsCalls :
        \E env \in EnvsFor(c.name, Envs) :
            execute_tool(c.name, c.args, "allow_once", env)

NextFs == FsExecuteTool

SpecFs == InitFs /\ [][NextFs]_vars

\* the path of the last call leaves the work root
CalledOutside ==
    /\ last.name \in FsTools
    /\ last.path # <<>>
    /\ ~ InsideWorkRoot(last.path)

\* C10 as stated: with the bypass off, every filesystem tool called on a
\* path that resolves outside the work root returns the access-denied error
\* and has read, created, changed and deleted nothing.
C10_AccessDeniedOutside ==
    ( CalledOutside /\ ~ BYPASS_WORK_DIR_LIMIT ) =>
        ( /\ ~ last.ok
          /\ last.msg = "Access denied"
          /\ last.log = {}
          /\ ~ last.changed )

\* C10: with the bypass off, every filesystem tool called on a path that
\* resolves outside the work root fails and has read, created, changed and
\* deleted nothing; the error is access-denied, except that search_symbol
\* without a symbol answers "Symbol name is required" before it looks at
\* the path.
C10_NoAccessOutside ==
    ( CalledOutside /\ ~ BYPASS_WORK_DIR_LIMIT ) =>
        ( /\ ~ last.ok
          /\ last.outcome = "return"
          /\ last.log = {}
          /\ ~ last.changed
          /\ \/ last.msg = "Access denied"
             \/ last.name = "search_symbol"
                  /\ last.msg = "Symbol name is required" )

\* delete_path through the link that leaves the work root was refused
C10_Witness ==
    /\ ~ BYPASS_WORK_DIR_LIMIT
    /\ last.name = "delete_path"
    /\ last.path = pViaLink
    /\ last.msg = "Access denied"
    /\ last.log = {}

-----------------------------------------------------------------------------
(* Specification SpecSess: the SessionManager under its clients, the        *)
(* processes and the reaper thread.  The clock is looked at on three       *)
(* instants: the start, one past the idle timeout, and one past the total  *)
(* timeout of every session started by then.                               *)

SessionIds == { "s1", "s2", "s3" }

Instants ==
    << 0, SESSION_IDLE_TIMEOUT + 1,
       SESSION_IDLE_TIMEOUT + 1 + SESSION_TIMEOUT + 1 >>

LastInstant == Instants[Len(Instants)]

SessArgs(sid) == [Args({ "session_id" }) EXCEPT !.session_id = sid]

SessEnv(sid, spawn_ok, write_ok, term_ok, polls) ==
    [ sid |-> sid, spawn_ok |-> spawn_ok, write_ok |-> write_ok,
      run_ok |-> TRUE, term_ok |-> term_ok, polls |-> polls, save |-> "ok" ]

SessObserved(name, sid, a, env, r) ==
    [ NoCall EXCEPT
        !.name = name, !.outcome = "return", !.ok = r.ok, !.msg = r.msg,
        !.ran = TRUE,
        !.sess = [ NoSess EXCEPT
                     !.sid = sid, !.has_text = "input_text" \in a.has,
                     !.spawn_ok = env.spawn_ok, !.write_ok = env.write_ok,
                     !.spawned = r.spawned, !.replaced = r.replaced,
                     !.wrote = r.wrote, !.signals = r.signals,
                     !.exited = r.exited, !.script = env.polls,
                     !.lines = r.lines, !.marker = r.marker,
                     !.polls = r.polls ] ]

SessUnchanged ==
    UNCHANGED << CURRENT_PLAN, CURRENT_SESSION_ID, PLAN_DECISION_MADE,
                 SIGNIFICANT_ACTIONS_COUNT, WORK_DIR, BYPASS_WORK_DIR_LIMIT,
                 BYPASS_PERMISSION, BYPASS_PLAN_CHECK, EXIT_ON_TERMINATE,
                 SESSION_APPROVED_TOOLS, PERMISSION_CALLBACK, fs, planFiles, planLog, SESSION_LOCK, run,
                 host, remembered, pathIn, pathOut, writer >>

InitSess ==
    /\ InitGlobals
    /\ BYPASS_PERMISSION = TRUE
    /\ BYPASS_PLAN_CHECK = TRUE
    /\ EXIT_ON_TERMINATE = TRUE
    /\ PERMISSION_CALLBACK = FALSE
    /\ BYPASS_WORK_DIR_LIMIT = FALSE
    /\ WORK_DIR = set_work_dir(fs, pW)
    /\ pathIn = <<>>
    /\ pathOut = NoPathOut

\* the call lands in the table and in what was observed of it
SessCall(name, sid, a, env, r) ==
    /\ ACTIVE_SESSIONS' = r.sessions
    /\ last' = SessObserved(name, sid, a, env, r)
    /\ UNCHANGED now
    /\ SessUnchanged

\* sessions are started while the clock can still outrun their timeout
SessStart(ids) ==
    /\ now < LastInstant
    /\ \E sid \in ids, spawn_ok \in BOOLEAN, write_ok \in BOOLEAN :
         \E a \in { [Args({ "command" }) EXCEPT !.command = txtA] },
            env \in { SessEnv(sid, spawn_ok, write_ok, TRUE, <<>>) } :
            SessCall("start_session", sid, a, env,
                     start_session(ACTIVE_SESSIONS, now, a, env))

SessSend(ids) ==
    \E sid \in ids, has_text \in BOOLEAN, write_ok \in BOOLEAN :
        \E a \in { IF has_text
                   THEN [Args({ "session_id", "input_text" }) EXCEPT
                            !.session_id = sid, !.input_text = txtA]
                   ELSE SessArgs(sid) },
           env \in { SessEnv(sid, TRUE, write_ok, TRUE, <<>>) } :
           SessCall("send_input", sid, a, env,
                    send_input(ACTIVE_SESSIONS, now, a, env))

SessRead(ids, scripts) ==
    \E sid \in ids, polls \in scripts :
        \E a \in { SessArgs(sid) },
           env \in { SessEnv(sid, TRUE, TRUE, TRUE, polls) } :
           SessCall("read_output", sid, a, env,
                    read_output(ACTIVE_SESSIONS, now, a, env))

SessClose(ids) ==
    \E sid \in ids, term_ok \in BOOLEAN :
        \E a \in { SessArgs(sid) },
           env \in { SessEnv(sid, TRUE, TRUE, term_ok, <<>>) } :
           SessCall("close_session", sid, a, env,
                    close_session(ACTIVE_SESSIONS, now, a, env))

\* the process of a session exits by itself
ProcessExit ==
    /\ \E sid \in DOMAIN ACTIVE_SESSIONS :
         /\ ACTIVE_SESSIONS[sid].alive
         /\ ACTIVE_SESSIONS' = [ACTIVE_SESSIONS EXCEPT ![sid].alive = FALSE]
         /\ last' = [NoCall EXCEPT !.name = "process_exit",
                                   !.sess = [NoSess EXCEPT !.sid = sid]]
    /\ UNCHANGED now
    /\ SessUnchanged

\* time passes to the next instant
Tick ==
    /\ \E i \in 1 .. Len(Instants) - 1 :
         /\ now = Instants[i]
         /\ now' = Instants[i + 1]
    /\ last' = [NoCall EXCEPT !.name = "tick"]
    /\ UNCHANGED ACTIVE_SESSIONS
    /\ SessUnchanged

\* the reaper thread wakes up from its sleep
Reaper ==
    /\ \E stubborn \in SUBSET DOMAIN ACTIVE_SESSIONS :
         \E r \in { cleanup_expired_sessions(ACTIVE_SESSIONS, now,
                        [ k \in DOMAIN ACTIVE_SESSIONS |-> k \notin stubborn ]) } :
            /\ ACTIVE_SESSIONS' = r.sessions
            /\ last' = [NoCall EXCEPT
                          !.name = "reaper",
                          !.sess = [NoSess EXCEPT
                                      !.reaped = r.reaped,
                                      !.stubborn = { k \in r.reaped :
                                                       Len(r.signals[k]) = 2 }]]
    /\ UNCHANGED now
    /\ SessUnchanged

NextSess ==
    \/ SessStart(SessionIds)
    \/ SessSend(SessionIds)
    \/ SessRead(SessionIds, { <<>> })
    \/ SessClose(SessionIds)
    \/ ProcessExit
    \/ Tick
    \/ Reaper

SpecSess == InitSess /\ [][NextSess]_vars

-----------------------------------------------------------------------------
(* Specification SpecReap: sessions that nobody closes.  The reaper is a    *)
(* daemon thread in a loop of sleep and sweep, and the clock does not      *)
(* stop, hence the fairness of both.                                       *)

ReapIds == { "s1", "s2" }

NextReap ==
    \/ SessStart(ReapIds)
    \/ SessSend(ReapIds)
    \/ SessRead(ReapIds, { <<>> })
    \/ ProcessExit
    \/ Tick
    \/ Reaper

SpecReap ==
    InitSess /\ [][NextReap]_vars /\ WF_vars(Tick) /\ WF_vars(Reaper)

\* C11: the session table never holds more than MAX_SESSIONS entries;
\* start_session answers the session-limit error exactly when the table
\* already holds MAX_SESSIONS entries, and then spawns nothing and leaves
\* the table as it was; with fewer entries, a start the system lets through
\* succeeds, so a start succeeds again after a close or a reap.
C11_SessionLimit ==
    /\ [](Cardinality(DOMAIN ACTIVE_SESSIONS) <= MAX_SESSIONS)
    /\ [][ last'.name = "start_session" =>
             /\ ( last'.msg = "Maximum sessions reached" ) <=>
                  ( Cardinality(DOMAIN ACTIVE_SESSIONS) = MAX_SESSIONS )
             /\ ( last'.msg = "Maximum sessions reached" ) =>
                  ( /\ ~ last'.ok
                    /\ ~ last'.sess.spawned
                    /\ ACTIVE_SESSIONS' = ACTIVE_SESSIONS )
             /\ ( /\ Cardinality(DOMAIN ACTIVE_SESSIONS) < MAX_SESSIONS
                  /\ last'.sess.spawn_ok /\ last'.sess.write_ok ) =>
                  ( /\ last'.ok
                    /\ last'.sess.spawned
                    /\ last'.sess.sid \in DOMAIN ACTIVE_SESSIONS' )
       ]_vars

\* a start was refused with three sessions in the table
C11_Witness ==
    /\ last.name = "start_session"
    /\ last.msg = "Maximum sessions reached"
    /\ Cardinality(DOMAIN ACTIVE_SESSIONS) = MAX_SESSIONS

\* C12 as stated: start_session never registers a session under an id
\* that is still in the table, so no entry is overwritten by a later start.
C12_UniqueWhileLive ==
    ( last.name = "start_session" ) => ~ last.sess.replaced

\* C13: with the reaper thread and the clock running and no close_session
\* call at all, every session in the table leaves the table, whatever else
\* the clients do or leave undone and whether or not its process obeys the
\* request to terminate.
C13_EventuallyReaped ==
    \A sid \in ReapIds :
        ( sid \in DOMAIN ACTIVE_SESSIONS ) ~> ( sid \notin DOMAIN ACTIVE_SESSIONS )

\* the reaper removed a session whose process ignored the request
C13_Witness ==
    /\ last.name = "reaper"
    /\ last.sess.stubborn # {}
    /\ last.sess.stubborn \cap DOMAIN ACTIVE_SESSIONS = {}

SendRefused ==
    /\ ~ last'.ok
    /\ last'.sess.wrote = <<>>
    /\ ACTIVE_SESSIONS' = ACTIVE_SESSIONS

\* send_input went through: text and newline written, the access noted
SendDone ==
    /\ last'.ok
    /\ last'.sess.wrote = txtA \o NEWLINE
    /\ ACTIVE_SESSIONS' =
         [ACTIVE_SESSIONS EXCEPT ![last'.sess.sid].last_accessed = now]

SendToGone ==
    \/ last'.sess.sid \notin DOMAIN ACTIVE_SESSIONS
    \/ ~ ACTIVE_SESSIONS[last'.sess.sid].alive

\* C15 as stated: send_input fails, writing nothing and leaving the access
\* time as it was, when the id is not in the table or the process has
\* exited; otherwise it writes the text and a newline and sets the access
\* time to the current time.
C15_SendOrFail ==
    [][ last'.name = "send_input" =>
          IF SendToGone THEN SendRefused ELSE SendDone ]_vars

\* C15: send_input fails, writing nothing and leaving the access time as it
\* was, when the id is not in the table or the process has exited; it also
\* fails, with the access time as it was, when no text is given or the write
\* to stdin raises; otherwise it writes the text and a newline and sets the
\* access time to the current time.
C15_SendOrFailOrRaise ==
    [][ last'.name = "send_input" =>
          IF SendToGone
          THEN SendRefused /\ last'.msg \in { "Session not found",
                                              "Session has terminated" }
          ELSE IF ~ last'.sess.has_text \/ ~ last'.sess.write_ok
          THEN /\ ~ last'.ok
               /\ last'.msg = "Failed to send input"
               /\ ACTIVE_SESSIONS' = ACTIVE_SESSIONS
          ELSE SendDone ]_vars

\* input reached a session later than it was started
C15_Witness ==
    /\ last.name = "send_input"
    /\ last.ok
    /\ last.sess.wrote = txtA \o NEWLINE
    /\ ACTIVE_SESSIONS[last.sess.sid].last_accessed = now
    /\ ACTIVE_SESSIONS[last.sess.sid].created_at < now

-----------------------------------------------------------------------------
(* Specification SpecOut: what read_output makes of the lines the reader    *)
(* threads queue.  A script is what output_queue.get answers, call by      *)
(* call, until the deadline of the read.                                   *)

\* a newline alone, a short line, half a buffer with its newline, and a line
\* longer than the buffer
BlankLine == [body |-> 0, trail |-> 1]
ShortLine == [body |-> 1, trail |-> 1]
HalfLine == [body |-> OUTPUT_BUFFER_SIZE \div 2 - 1, trail |-> 1]
LongLine == [body |-> OUTPUT_BUFFER_SIZE + 904, trail |-> 1]

Lines == { BlankLine, ShortLine, HalfLine, LongLine }

Scripts == SeqsUpTo(Lines \cup { NoLine }, MaxPolls)

OutIds == { "s1" }

NextOut ==
    \/ SessStart(OutIds)
    \/ SessRead(OutIds, Scripts)
    \/ SessClose(OutIds)
    \/ ProcessExit

SpecOut == InitSess /\ [][NextOut]_vars

\* C16: read_output on a session in the table succeeds, and answers the
\* sentinel "[no output within timeout]" exactly when every call of get
\* until the deadline came back empty; once a line has been read it returns
\* at the first empty answer at the latest; on an id not in the table it
\* fails with not found.
C16_SentinelAndEarlyReturn ==
    [][ last'.name = "read_output" =>
          IF last'.sess.sid \notin DOMAIN ACTIVE_SESSIONS
          THEN ~ last'.ok /\ last'.msg = "Session not found"
          ELSE
            /\ last'.ok
            /\ ( last'.msg = "[no output within timeout]" ) <=>
                 ( \A i \in 1 .. last'.sess.polls :
                       last'.sess.script[i] = NoLine )
            /\ ( last'.msg = "[no output within timeout]" ) =>
                 ( last'.sess.polls = Len(last'.sess.script) )
            /\ \A i \in 1 .. Len(last'.sess.script) :
                 ( /\ last'.sess.script[i] = NoLine
                   /\ \E j \in 1 .. i - 1 : last'.sess.script[j] # NoLine ) =>
                     last'.sess.polls <= i
      ]_vars

\* a read returned on the empty answer that followed its first line, with
\* another line still to come before the deadline
C16_Witness ==
    /\ last.name = "read_output"
    /\ last.ok
    /\ last.sess.script = << ShortLine, NoLine, ShortLine >>
    /\ last.sess.polls = 2
    /\ last.sess.lines = << 1 >>

\* C17 as stated: the output text one read_output call returns, the
\* truncation marker not counted, is never longer than OUTPUT_BUFFER_SIZE.
C17_WithinBuffer ==
    ( last.name = "read_output" /\ last.ok ) =>
        joined_len(last.sess.lines) <= OUTPUT_BUFFER_SIZE

-----------------------------------------------------------------------------
(* Specification SpecEdit: edit_file and create_file with the write of the  *)
(* target taken step by step: the temporary file is made, filled and       *)
(* renamed over the target, and the process may die before any of the      *)
(* steps.  The terminal permission prompt previews an edit_file request.   *)

txtB == << "b" >>

\* {"op": "replace", "anchor": {"type": "exact", "pattern": "a"},
\*  "content": "b"}
ReplaceHunk ==
    [ anchor |-> [type |-> "exact", pattern |-> txtA, nth |-> 0,
                  occurrence |-> "first", range |-> <<>>, has |-> {}],
      must_unique |-> FALSE, op |-> "replace", content |-> txtB ]

EditModes == { "overwrite", "append", "prepend", "patch" }

\* no precondition, the digest of "a", the digest of "b"
EditDigests == { <<>>, compute_sha256(txtA), compute_sha256(txtB) }

EditArg(p, mode, dry_run, sha) ==
    [Args({ "path", "content", "mode", "hunks" }
            \cup IF sha = <<>> THEN {} ELSE { "precondition" })
       EXCEPT !.path = p, !.content = txtA, !.mode = mode,
              !.hunks = << ReplaceHunk >>, !.dry_run = dry_run, !.sha = sha]

\* every mode, with and without dry_run and precondition, on the file f of
\* the work directory; a mode that does not exist; a path outside
EditArgs ==
    { EditArg(pF, mode, dry_run, sha) :
        mode \in EditModes, dry_run \in BOOLEAN, sha \in EditDigests }
      \cup { EditArg(pF, "bogus", dry_run, <<>>) : dry_run \in BOOLEAN }
      \cup { EditArg(pOutside, "overwrite", dry_run, <<>>) : dry_run \in BOOLEAN }

EditCalls ==
    { Call("edit_file", a) : a \in EditArgs }
        \cup { Call("create_file",
                    [Args({ "path", "content" }) EXCEPT
                         !.path = p, !.content = txtA]) : p \in { pF, pOutside } }

EditObserved(name, a, outcome, r) ==
    [ NoCall EXCEPT
        !.name = name, !.path = a.path, !.outcome = outcome,
        !.ok = r.ok, !.msg = r.msg, !.ran = TRUE, !.log = r.log,
        !.edit = [args |-> a, applied |-> r.applied, diff |-> r.diff,
                  patch |-> r.patch, content |-> r.content] ]

EditUnchanged ==
    UNCHANGED << CURRENT_PLAN, CURRENT_SESSION_ID, PLAN_DECISION_MADE,
                 SIGNIFICANT_ACTIONS_COUNT, WORK_DIR, BYPASS_WORK_DIR_LIMIT,
                 BYPASS_PERMISSION, BYPASS_PLAN_CHECK, EXIT_ON_TERMINATE,
                 PERMISSION_CALLBACK, ACTIVE_SESSIONS, planFiles, planLog,
                    SESSION_LOCK, run, host,
                 remembered, now, pathIn, pathOut >>

InitEdit ==
    /\ InitGlobals
    /\ BYPASS_PERMISSION = FALSE
    /\ BYPASS_PLAN_CHECK = TRUE
    /\ EXIT_ON_TERMINATE = TRUE
    /\ PERMISSION_CALLBACK = FALSE
    /\ BYPASS_WORK_DIR_LIMIT = FALSE
    /\ WORK_DIR = set_work_dir(fs, pW)
    /\ pathIn = <<>>
    /\ pathOut = NoPathOut

Writing == writer.pc \in { "begun", "open" }

\* The call up to its answer, or up to the point where it has the new text
\* and is about to make the temporary file
FileCall ==
    /\ ~ Writing
    /\ \E c \in EditCalls :
       \E r \in { IF c.name = "edit_file"
                  THEN edit_file(fs, WORK_DIR, BYPASS_WORK_DIR_LIMIT, c.args)
                  ELSE create_file(fs, WORK_DIR, BYPASS_WORK_DIR_LIMIT, c.args) } :
          /\ Len(r.commit.text) <= MaxTextLen
          /\ IF r.commit = NoCommit
             THEN /\ fs' = r.fs
                  /\ writer' = NoWrite
                  /\ last' = EditObserved(c.name, c.args, "return", r)
             ELSE /\ fs' = r.commit.base
                  /\ writer' =
                       [ pc |-> "begun", target |-> r.commit.target,
                         tmp |-> tmp_path(dirname(r.commit.target),
                                          r.commit.target),
                         text |-> r.commit.text,
                         old |-> node_at(fs, r.commit.target) ]
                  /\ last' = EditObserved(c.name, c.args, "running", r)
    /\ UNCHANGED SESSION_APPROVED_TOOLS
    /\ EditUnchanged

\* tempfile.NamedTemporaryFile(...)
OpenTmp ==
    /\ writer.pc = "begun"
    /\ fs' = open_for_write(fs, writer.tmp)
    /\ writer' = [writer EXCEPT !.pc = "open"]
    /\ UNCHANGED << last, SESSION_APPROVED_TOOLS >>
    /\ EditUnchanged

\* tmp.write(new_text), as far as the text has reached the file
WriteTmp ==
    /\ writer.pc = "open"
    /\ \E k \in (Len(fs[writer.tmp].text) + 1) .. Len(writer.text) :
         fs' = write_chars(fs, writer.tmp, writer.text, k)
    /\ UNCHANGED << writer, last, SESSION_APPROVED_TOOLS >>
    /\ EditUnchanged

\* the file is closed with the whole text in it: os.rename(tmp_path, target)
Rename ==
    /\ writer.pc = "open"
    /\ fs[writer.tmp].text = writer.text
    /\ fs' = os_rename(fs, writer.tmp, writer.target)
    /\ writer' = [writer EXCEPT !.pc = "done"]
    /\ last' = [last EXCEPT !.outcome = "return"]
    /\ UNCHANGED SESSION_APPROVED_TOOLS
    /\ EditUnchanged

\* the process dies in the middle of the write
Crash ==
    /\ Writing
    /\ writer' = [writer EXCEPT !.pc = "crashed"]
    /\ last' = [last EXCEPT !.outcome = "crash", !.ok = FALSE]
    /\ UNCHANGED << fs, SESSION_APPROVED_TOOLS >>
    /\ EditUnchanged

\* execute_tool asks for permission to run edit_file and the user refuses
PromptPreview ==
    /\ ~ Writing
    /\ \E a \in EditArgs :
       \E perm \in { ask_user_permission("edit_file", a, "deny_continue") } :
          /\ fs' = perm.fs
          /\ SESSION_APPROVED_TOOLS' = perm.approved
          /\ last' = [NoCall EXCEPT
                        !.name = "ask_user_permission", !.path = a.path,
                        !.outcome = "return", !.consulted = perm.consulted,
                        !.choice = "deny_continue",
                        !.edit = [NoEdit EXCEPT !.args = a]]
    /\ UNCHANGED writer
    /\ EditUnchanged

NextEdit ==
    \/ FileCall
    \/ OpenTmp
    \/ WriteTmp
    \/ Rename
    \/ Crash
    \/ PromptPreview

SpecEdit == InitEdit /\ [][NextEdit]_vars

\* C18: from the moment a committing edit_file or create_file has its new
\* text until it returns or the process dies, the target is what it was
\* before the call (its whole previous content, or absent), and once the
\* rename is done it is the whole new text.
C18_OldOrNew ==
    /\ Writing => node_at(fs, writer.target) = writer.old
    /\ writer.pc = "crashed" =>
         node_at(fs, writer.target) \in { writer.old, FileNode(writer.text) }
    /\ writer.pc = "done" =>
         node_at(fs, writer.target) = FileNode(writer.text)

\* the process died with the whole new text in the temporary file and the
\* target still holding its previous, different text
C18_Witness ==
    /\ writer.pc = "crashed"
    /\ writer.old.kind = "file"
    /\ writer.old.text # writer.text
    /\ node_at(fs, writer.tmp) = FileNode(writer.text)
    /\ node_at(fs, writer.target) = writer.old

\* the file the call of the step is about, and its text before the step
EditTarget == resolve_path(fs, WORK_DIR, last'.edit.args.path)

CurrentText == node_at(fs, EditTarget).text

\* what the same call writes when dry_run is off
WouldCommit ==
    edit_file(fs, WORK_DIR, BYPASS_WORK_DIR_LIMIT,
              [last'.edit.args EXCEPT !.dry_run = FALSE]).commit

\* C19: edit_file with dry_run on returns at once, leaves the filesystem as
\* it is in every mode, and when it succeeds answers applied = false and the
\* diff from the current text to the text the call would write; the preview
\* of the terminal permission prompt leaves the filesystem as it is too.
C19_DryRunWritesNothing ==
    [][ /\ ( last'.name = "edit_file" /\ last'.edit.args.dry_run ) =>
             ( /\ last'.outcome = "return"
               /\ fs' = fs
               /\ writer'.pc = "idle"
               /\ "write" \notin last'.log
               /\ last'.ok =>
                    ( /\ ~ last'.edit.applied
                      /\ last'.edit.diff # <<>> =>
                            last'.edit.diff[1] = CurrentText
                      /\ WouldCommit # NoCommit =>
                            last'.edit.diff =
                                unified_diff(CurrentText, WouldCommit.text) ) )
        /\ ( last'.name = "ask_user_permission" ) =>
             ( fs' = fs /\ last'.consulted )
      ]_vars

\* a dry run in patch mode answered the diff from "a" to "b" and left the
\* file holding "a"
C19_Witness ==
    /\ last.name = "edit_file"
    /\ last.edit.args.dry_run
    /\ last.edit.args.mode = "patch"
    /\ last.ok
    /\ ~ last.edit.applied
    /\ last.edit.diff = << txtA, txtB >>
    /\ node_at(fs, pW \o << SEP >> \o pF) = FileNode(txtA)

\* the prompt previewed an edit of the existing file and nothing changed
C19_PromptWitness ==
    /\ last.name = "ask_user_permission"
    /\ last.edit.args.mode = "overwrite"
    /\ node_at(fs, pW \o << SEP >> \o pF) = FileNode(txtB)

\* C20: when the target is a file, the mode one of the four, and a
\* precondition digest is given that differs from the digest of the file's
\* text, edit_file answers the precondition error and has changed nothing:
\* the filesystem is as it was, no write was begun, no hunk applied.
C20_PreconditionFirst ==
    [][ ( /\ last'.name = "edit_file"
          /\ last'.edit.args.mode \in EditModes
          /\ node_at(fs, EditTarget).kind = "file"
          /\ "precondition" \in last'.edit.args.has
          /\ last'.edit.args.sha # compute_sha256(CurrentText) ) =>
            ( /\ last'.outcome = "return"
              /\ ~ last'.ok
              /\ last'.msg = "Precondition failed"
              /\ fs' = fs
              /\ writer'.pc = "idle"
              /\ "write" \notin last'.log
              /\ ~ last'.edit.applied )
      ]_vars

\* a patch of the file holding "a" was refused for the digest of "b"
C20_Witness ==
    /\ last.name = "edit_file"
    /\ last.edit.args.mode = "patch"
    /\ ~ last.edit.args.dry_run
    /\ last.edit.args.sha = compute_sha256(txtB)
    /\ last.msg = "Precondition failed"
    /\ node_at(fs, pW \o << SEP >> \o pF) = FileNode(txtA)

-----------------------------------------------------------------------------
(* Specification SpecPatch: edit_file on the file f of the work directory,  *)
(* each call taken whole, with one or two hunks of every kind the patch    *)
(* loop tells apart, on a file that is missing or holds a short text.      *)

MaxPatchLen == 3

\* a hunk as edit_file reads it: anchor.has holds the optional keys the
\* anchor carries; here nth = 0 stands for an anchor without nth, and no
\* anchor has a range
Hunk(type, pattern, nth, occurrence, must_unique, op, content) ==
    [ anchor |-> [type |-> type, pattern |-> pattern, nth |-> nth,
                  occurrence |-> occurrence, range |-> <<>>,
                  has |-> IF nth # 0 THEN { "nth" } ELSE {}],
      must_unique |-> must_unique, op |-> op, content |-> content ]

\* the four ops on the first "a"
OpHunks ==
    { Hunk("exact", txtA, 0, "first", FALSE, op, txtB) :
        op \in { "replace", "insert_before", "insert_after", "delete" } }

\* the other ways to select a span, and the hunks that fail whatever the
\* text: a regex that does not compile, an anchor type and an op that do
\* not exist
PatchHunks ==
    OpHunks \cup
    { Hunk("exact", txtB, 0, "last", FALSE, "replace", txtA),
      Hunk("exact", txtA, 2, "first", FALSE, "replace", txtB),
      Hunk("exact", txtA, 0, "first", TRUE, "replace", txtB),
      Hunk("regex", txtA, 0, "first", FALSE, "insert_after", txtA),
      Hunk("regex", << "(" >>, 0, "first", FALSE, "replace", txtB),
      Hunk("glob", txtA, 0, "first", FALSE, "replace", txtB),
      Hunk("exact", txtA, 0, "first", FALSE, "swap", txtB) }

PatchArg(mode, dry_run, content, hunks) ==
    [Args({ "path", "content", "mode", "hunks" })
       EXCEPT !.path = pF, !.content = content, !.mode = mode,
              !.hunks = hunks, !.dry_run = dry_run]

\* one hunk with and without dry_run; two hunks, the first of which is one
\* of the four ops; the simple modes
PatchArgs ==
    { PatchArg("patch", dry_run, <<>>, << h >>) :
        dry_run \in BOOLEAN, h \in PatchHunks }
      \cup { PatchArg("patch", FALSE, <<>>, << h1, h2 >>) :
               h1 \in OpHunks, h2 \in PatchHunks }
      \cup { PatchArg("overwrite", FALSE, t, <<>>) :
               t \in { <<>>, txtA, txtA \o txtA, txtA \o txtB,
                       txtA \o NEWLINE \o txtB } }
      \cup { PatchArg(mode, dry_run, txtA, <<>>) :
               mode \in { "append", "prepend" }, dry_run \in BOOLEAN }

InitPatch ==
    /\ InitGlobals
    /\ BYPASS_PERMISSION = TRUE
    /\ BYPASS_PLAN_CHECK = TRUE
    /\ EXIT_ON_TERMINATE = TRUE
    /\ PERMISSION_CALLBACK = FALSE
    /\ BYPASS_WORK_DIR_LIMIT = FALSE
    /\ WORK_DIR = set_work_dir(fs, pW)
    /\ pathIn = <<>>
    /\ pathOut = NoPathOut

\* edit_file from its first line to its return
PatchCall ==
    /\ \E a \in PatchArgs :
       \E r \in { edit_file(fs, WORK_DIR, BYPASS_WORK_DIR_LIMIT, a) } :
          /\ Len(r.commit.text) <= MaxPatchLen
          /\ fs' = r.fs
          /\ last' = EditObserved("edit_file", a, "return", r)
    /\ UNCHANGED << writer, SESSION_APPROVED_TOOLS >>
    /\ EditUnchanged

\* read_file on the same file
PatchRead ==
    /\ \E a \in { [Args({ "path" }) EXCEPT !.path = pF] } :
       \E r \in { read_file(fs, WORK_DIR, BYPASS_WORK_DIR_LIMIT, a) } :
          last' = EditObserved("read_file", a, "return", r)
    /\ UNCHANGED << fs, writer, SESSION_APPROVED_TOOLS >>
    /\ EditUnchanged

NextPatch ==
    \/ PatchCall
    \/ PatchRead

SpecPatch == InitPatch /\ [][NextPatch]_vars

\* the file the calls are about, and the text edit_file reads from it
\* ("" when it is missing)
PatchTarget == pW \o << SEP >> \o pF

PatchOriginal ==
    IF node_at(fs, PatchTarget).kind = "file" THEN fs[PatchTarget].text
    ELSE <<>>

\* the place in hunks of the first hunk that fails when the hunks are
\* applied one after the other from text, 0 when none fails
RECURSIVE FirstFailing(_, _)
FirstFailing(text, hunks) ==
    IF hunks = <<>> THEN 0
    ELSE LET r == apply_hunk(text, Head(hunks))
         IN  IF ~ r.ok THEN 1
             ELSE LET k == FirstFailing(r.text, Tail(hunks))
                  IN  IF k = 0 THEN 0 ELSE k + 1

\* C21: when a hunk of a patch-mode edit_file fails, whether it is the
\* first or comes after hunks that applied, the call returns an error and
\* the filesystem is as it was before the call.
C21_FailingHunkChangesNothing ==
    [][ ( /\ last'.name = "edit_file"
          /\ last'.edit.args.mode = "patch"
          /\ FirstFailing(PatchOriginal, last'.edit.args.hunks) # 0 ) =>
            ( /\ last'.outcome = "return"
              /\ ~ last'.ok
              /\ ~ last'.edit.applied
              /\ fs' = fs )
      ]_vars

\* a call whose first hunk applied and whose second hunk failed was
\* refused, on a file that holds a text
C21_Witness ==
    /\ last.name = "edit_file"
    /\ last.edit.args.mode = "patch"
    /\ ~ last.edit.args.dry_run
    /\ node_at(fs, PatchTarget).kind = "file"
    /\ FirstFailing(PatchOriginal, last.edit.args.hunks) = 2
    /\ ~ last.ok
    /\ last.msg \in { "Anchor not found", "Anchor ambiguous",
                      "Requested occurrence not found", "Unsupported op",
                      "Edit failed" }

\* where pattern occurs in text, as 0-based offsets
Occurrences(text, pattern) ==
    { i \in 0..(Len(text) - Len(pattern)) :
        SubSeq(text, i + 1, i + Len(pattern)) = pattern }

\* span (b, e) of prev is the occurrence of h's anchor that nth and
\* occurrence ask for
Selected(prev, h, b, e) ==
    LET occ == Occurrences(prev, h.anchor.pattern)
        earlier == Cardinality({ i \in occ : i < b })
    IN  /\ b \in occ
        /\ e = b + Len(h.anchor.pattern)
        /\ earlier = IF h.anchor.nth # 0 THEN h.anchor.nth - 1
                     ELSE IF h.anchor.occurrence = "last"
                     THEN Cardinality(occ) - 1
                     ELSE 0

\* cur is prev with mid in the place of the span (b, e), and the same as
\* prev before b and after e
Spliced(prev, cur, b, e, mid) ==
    /\ Len(cur) = b + Len(mid) + Len(prev) - e
    /\ SubSeq(cur, 1, b) = SubSeq(prev, 1, b)
    /\ SubSeq(cur, b + 1, b + Len(mid)) = mid
    /\ SubSeq(cur, b + Len(mid) + 1, Len(cur)) = SubSeq(prev, e + 1, Len(prev))

\* what h puts in the place of the span inside
Replacement(h, inside) ==
    CASE h.op = "replace" -> h.content
      [] h.op = "insert_before" -> h.content \o inside
      [] h.op = "insert_after" -> inside \o h.content
      [] h.op = "delete" -> <<>>

\* C22: a patch that succeeds and commits leaves in the file the text got
\* by applying the hunks in the order given, each to the text the hunks
\* before it produced: each hunk selects the occurrence of its anchor that
\* nth and occurrence ask for, puts content in its place (replace), before
\* it or after it (insert_before, insert_after) or removes it (delete), and
\* leaves the text before and after the span as it was; nothing else in
\* the filesystem changes.
C22_HunksInOrder ==
    [][ ( /\ last'.name = "edit_file"
          /\ last'.edit.args.mode = "patch"
          /\ ~ last'.edit.args.dry_run
          /\ last'.ok ) =>
            LET hunks == last'.edit.args.hunks
                done == last'.edit.patch
                before(i) == IF i = 1 THEN PatchOriginal ELSE done.texts[i - 1]
            IN  /\ last'.edit.applied
                /\ done.hunks_applied = Len(hunks)
                /\ Len(done.texts) = Len(hunks)
                /\ Len(done.matches) = Len(hunks)
                /\ \A i \in 1..Len(hunks) :
                     LET b == done.matches[i][1]
                         e == done.matches[i][2]
                     IN  /\ Selected(before(i), hunks[i], b, e)
                         /\ Spliced(before(i), done.texts[i], b, e,
                                    Replacement(hunks[i],
                                                SubSeq(before(i), b + 1, e)))
                /\ fs' = [fs EXCEPT ![PatchTarget] =
                            FileNode(done.texts[Len(hunks)])]
      ]_vars

\* two hunks were applied and committed, the second to the text the first
\* had produced, and the file holds the outcome
C22_Witness ==
    /\ last.name = "edit_file"
    /\ last.edit.args.mode = "patch"
    /\ last.ok
    /\ last.edit.applied
    /\ last.edit.patch.hunks_applied = 2
    /\ last.edit.args.hunks[2].op = "insert_after"
    /\ last.edit.patch.texts[1] # last.edit.patch.texts[2]
    /\ node_at(fs, PatchTarget).text = last.edit.patch.texts[2]

\* C23: edit_file in append, prepend or patch mode on a path that does not
\* exist answers the file-not-found error and leaves the filesystem as it
\* was, with dry_run set and without.
C23_MissingFileRefused ==
    [][ ( /\ last'.name = "edit_file"
          /\ last'.edit.args.mode \in { "append", "prepend", "patch" }
          /\ ~ exists(fs, PatchTarget) ) =>
            ( /\ ~ last'.ok
              /\ last'.msg = "File not found"
              /\ fs' = fs )
      ]_vars

-----------------------------------------------------------------------------
(* Specification SpecPlan: the plan tracker over conversation sessions.    *)
(* The permission gate is bypassed, the plan gate is on.  The process can  *)
(* begin a new conversation session, resume one, and exit and start again; *)
(* the write of a plan file can fail.                                      *)

PlanSessionIds == { "c1", "c2" }

TaskLists == { << "A", "B" >> }

PlanUpdateCalls ==
    { Call("plan", [Args({ "action", "task_id", "status" }) EXCEPT
                       !.action = "update", !.task_id = i, !.status = st]) :
        i \in 1..3, st \in { "in_progress", "completed" } }
      \cup
    { Call("plan", [Args({ "action", "task_id", "status" }) EXCEPT
                       !.action = "update", !.task_id = 1, !.status = "done"]) }

PlanToolCalls ==
    PlanUpdateCalls \cup
    { Call("plan", [Args({ "action", "tasks" }) EXCEPT
                       !.action = "create", !.tasks = t]) : t \in TaskLists }
      \cup
    { Call("plan", [Args({ "action", "tasks" }) EXCEPT !.action = "create"]),
      Call("plan", [Args({ "action" }) EXCEPT !.action = "skip"]),
      Call("plan", [Args({ "action", "task_id" }) EXCEPT
                       !.action = "update", !.task_id = 1]),
      Call("plan", [Args({ "action" }) EXCEPT !.action = "check"]),
      Call("read_file", [Args({ "path" }) EXCEPT !.path = pF]),
      Call("list_directory", [Args({ "path" }) EXCEPT !.path = pDot]),
      Call("delete_file", [Args({ "path" }) EXCEPT !.path = pF]),
      Call("run_command", [Args({ "command" }) EXCEPT !.command = txtA]),
      Call("send_input",
           [Args({ "session_id", "input_text" }) EXCEPT
                !.session_id = "s1", !.input_text = txtA]) }

\* what the filesystem does with the write of the plan file
PlanEnvsFor(name) ==
    IF name = "plan"
    THEN { [e EXCEPT !.save = w] :
             e \in EnvsFor(name, Envs), w \in { "ok", "partial" } }
    ELSE EnvsFor(name, Envs)

InitPlan ==
    /\ InitGlobals
    /\ BYPASS_PERMISSION = TRUE
    /\ BYPASS_PLAN_CHECK = FALSE
    /\ EXIT_ON_TERMINATE = TRUE
    /\ PERMISSION_CALLBACK = FALSE
    /\ BYPASS_WORK_DIR_LIMIT = FALSE
    /\ WORK_DIR = set_work_dir(fs, pW)
    /\ pathIn = <<>>
    /\ pathOut = NoPathOut

\* the tasks are worked on in the first conversation session; the second
\* makes its plan or skips it
PlanExecuteTool ==
    \E c \in PlanToolCalls :
        /\ c \in PlanUpdateCalls => CURRENT_SESSION_ID # "c2"
        /\ \E env \in PlanEnvsFor(c.name) :
              execute_tool(c.name, c.args, "allow_once", env)

\* str(uuid.uuid4())[:8] of a new conversation session: an id that is not
\* in use and has no plan file, the first such id
FreshIds ==
    { sid \in PlanSessionIds :
        /\ sid # CURRENT_SESSION_ID
        /\ plan_file(sid) \notin DOMAIN planFiles
        /\ sid \notin DOMAIN planLog }

PlanNewSession ==
    \E sid \in FreshIds :
        /\ sid = "c1" \/ "c1" \notin FreshIds
        /\ set_session_id(sid)

\* a conversation session that made a plan is resumed
PlanResumeSession == \E sid \in DOMAIN planLog : resume_session(sid)

\* the process ends and is started again: the module's globals have their
\* initial values, the files are as they were
PlanRestart ==
    /\ CURRENT_PLAN' = NoPlan
    /\ CURRENT_SESSION_ID' = ""
    /\ PLAN_DECISION_MADE' = FALSE
    /\ SIGNIFICANT_ACTIONS_COUNT' = 0
    /\ SESSION_APPROVED_TOOLS' = {}
    /\ remembered' = {}
    /\ last' = [NoCall EXCEPT !.name = "restart"]
    /\ UNCHANGED << WORK_DIR, BYPASS_WORK_DIR_LIMIT, BYPASS_PERMISSION,
                    BYPASS_PLAN_CHECK, EXIT_ON_TERMINATE,
                    PERMISSION_CALLBACK, ACTIVE_SESSIONS, fs, planFiles,
                    planLog, SESSION_LOCK, run, host, now, pathIn, pathOut, writer >>

NextPlan ==
    \/ PlanExecuteTool
    \/ PlanNewSession
    \/ PlanResumeSession
    \/ PlanRestart

SpecPlan == InitPlan /\ [][NextPlan]_vars

\* the step is execute_tool running plan with the given action
PlanStep(act) ==
    /\ last'.name = "plan"
    /\ last'.ran
    /\ last'.act = act

\* the plan file of the current conversation session holds the plan the
\* step leaves in memory, and the plan files of the other sessions are as
\* they were
SavedUnderSessionId ==
    /\ DOMAIN planFiles' = DOMAIN planFiles \cup { CURRENT_SESSION_ID }
    /\ planFiles'[CURRENT_SESSION_ID].valid
    /\ json_load(planFiles'[CURRENT_SESSION_ID]) = CURRENT_PLAN'
    /\ \A k \in DOMAIN planFiles \ { CURRENT_SESSION_ID } :
         planFiles'[k] = planFiles[k]

\* the write of the plan file the step made went through
SaveWentThrough == planLog'[CURRENT_SESSION_ID].save = "ok"

\* the plan of n pending tasks with ids 1..n for the descriptions given
CreatedFrom(tasks) ==
    /\ last'.ok
    /\ CURRENT_PLAN'.exists
    /\ Len(CURRENT_PLAN'.tasks) = Len(tasks)
    /\ \A i \in 1..Len(tasks) :
         CURRENT_PLAN'.tasks[i] =
             [id |-> i, desc |-> tasks[i], status |-> "pending"]
    /\ PLAN_DECISION_MADE'
    /\ SIGNIFICANT_ACTIONS_COUNT' = 0

CreateWithTasks ==
    /\ PlanStep("create")
    /\ "tasks" \in last'.edit.args.has
    /\ last'.edit.args.tasks_type = "list"
    /\ last'.edit.args.tasks # <<>>

UpdateOfTask ==
    /\ PlanStep("update")
    /\ CURRENT_PLAN.exists
    /\ { "task_id", "status" } \subseteq last'.edit.args.has
    /\ \E j \in 1..Len(CURRENT_PLAN.tasks) :
         CURRENT_PLAN.tasks[j].id = last'.edit.args.task_id

\* plan(update) that has nothing to update
UpdateOfNothing ==
    /\ PlanStep("update")
    /\ \/ ~ CURRENT_PLAN.exists
       \/ ~ ( { "task_id", "status" } \subseteq last'.edit.args.has )
       \/ \A j \in 1..Len(CURRENT_PLAN.tasks) :
            CURRENT_PLAN.tasks[j].id # last'.edit.args.task_id

\* the one task has the new status, everything else in the plan is as it
\* was, and the counter is at 0
OneTaskUpdated ==
    /\ last'.ok
    /\ CURRENT_PLAN'.exists
    /\ Len(CURRENT_PLAN'.tasks) = Len(CURRENT_PLAN.tasks)
    /\ \A j \in 1..Len(CURRENT_PLAN.tasks) :
         /\ CURRENT_PLAN'.tasks[j].id = CURRENT_PLAN.tasks[j].id
         /\ CURRENT_PLAN'.tasks[j].desc = CURRENT_PLAN.tasks[j].desc
         /\ CURRENT_PLAN'.tasks[j].status =
              IF CURRENT_PLAN.tasks[j].id = last'.edit.args.task_id
              THEN last'.edit.args.status
              ELSE CURRENT_PLAN.tasks[j].status
    /\ PLAN_DECISION_MADE' = PLAN_DECISION_MADE
    /\ SIGNIFICANT_ACTIONS_COUNT' = 0

NothingUpdated ==
    /\ ~ last'.ok
    /\ UNCHANGED << CURRENT_PLAN, PLAN_DECISION_MADE,
                    SIGNIFICANT_ACTIONS_COUNT, planFiles >>

ResumeStep ==
    /\ last'.name = "restore_plan"
    /\ CURRENT_SESSION_ID' \in DOMAIN planLog

\* the plan the resumed session last created or updated is the plan in
\* memory, and the decision is made: the plan gate lets every tool through
PlanIsBack ==
    /\ CURRENT_PLAN' = planLog[CURRENT_SESSION_ID'].plan
    /\ PLAN_DECISION_MADE'
    /\ \A name \in FsTools \cup SessionTools \cup { "run_command" } :
         ~ plan_gate_blocks(name)'

MutatingTools ==
    { "create_file", "edit_file", "delete_file", "delete_path", "mkdir",
      "run_command" }

\* C27: the counter goes up by exactly 1 on each call execute_tool lets
\* through of a tool that changes files or runs a shell command, stays as it
\* is on a call of any other tool, read_file among them, and is 0 after
\* plan(create) and after every plan(update) that succeeds.
C27_CounterCountsMutations ==
    [][ ( /\ last'.ran
          /\ last'.name \in FsTools \cup SessionTools \cup { "plan", "run_command" } ) =>
            IF last'.name \in MutatingTools
            THEN SIGNIFICANT_ACTIONS_COUNT' = SIGNIFICANT_ACTIONS_COUNT + 1
            ELSE IF last'.name = "plan" /\ last'.ok
                    /\ last'.act \in { "create", "update" }
            THEN SIGNIFICANT_ACTIONS_COUNT' = 0
            ELSE SIGNIFICANT_ACTIONS_COUNT' = SIGNIFICANT_ACTIONS_COUNT
      ]_vars

\* the reminder the orchestrator is given in the current state
CurrentReminder ==
    get_plan_reminder(CURRENT_PLAN, PLAN_DECISION_MADE,
                      SIGNIFICANT_ACTIONS_COUNT)

InProgressNow ==
    { i \in 1..Len(CURRENT_PLAN.tasks) :
        CURRENT_PLAN.tasks[i].status = "in_progress" }

IncompleteNow ==
    { i \in 1..Len(CURRENT_PLAN.tasks) :
        CURRENT_PLAN.tasks[i].status # "completed" }

\* C28: the reminder is the decide-first warning whenever no decision has
\* been made; else the updates-overdue warning whenever the counter is 2 or
\* more; else the nudge exactly when exactly one task is in_progress and
\* the counter is at least 1.
C28_ReminderPriority ==
    /\ ~ PLAN_DECISION_MADE => CurrentReminder.kind = "decide"
    /\ ( PLAN_DECISION_MADE /\ SIGNIFICANT_ACTIONS_COUNT >= 2 ) =>
         CurrentReminder.kind = "overdue"
    /\ ( PLAN_DECISION_MADE /\ SIGNIFICANT_ACTIONS_COUNT < 2 ) =>
         ( CurrentReminder.kind = "nudge" <=>
             ( /\ Cardinality(InProgressNow) = 1
               /\ SIGNIFICANT_ACTIONS_COUNT >= 1 ) )

\* C29: when none of the three reminders above applies and a task of the
\* plan is not completed, the reminder lists the tasks that are not
\* completed; there is no reminder only when every task is completed or the
\* plan was skipped.
C29_ListsIncompleteTasks ==
    /\ ( /\ CurrentReminder.kind \notin { "decide", "overdue", "nudge" }
         /\ CURRENT_PLAN.exists
         /\ IncompleteNow # {} ) =>
           /\ CurrentReminder.kind = "incomplete"
           /\ { CurrentReminder.named[i] : i \in 1..Len(CurrentReminder.named) }
                = { CURRENT_PLAN.tasks[i].id : i \in IncompleteNow }
    /\ CurrentReminder.kind = "none" =>
         \/ CURRENT_PLAN.exists /\ IncompleteNow = {}
         \/ ~ CURRENT_PLAN.exists /\ PLAN_DECISION_MADE

\* C30: read_file of a file that was just written answers (true, t) for
\* the text t that was written.
C30_ReadBackWritten ==
    [][ ( /\ last.name = "edit_file"
          /\ last.edit.args.mode = "overwrite"
          /\ last.ok
          /\ last.edit.applied
          /\ last'.name = "read_file" ) =>
            ( /\ last'.ok
              /\ last'.edit.content = last.edit.args.content )
      ]_vars

-----------------------------------------------------------------------------
(* Specification SpecWake: the reaper against the two timeouts.  The clock  *)
(* is looked at on the instants around them: the idle timeout to the       *)
(* second and one past it, and the total timeout to the second and one     *)
(* past it, with an instant in between from which an access is still       *)
(* fresh at the total timeout.                                              *)

WakeIds == { "s1", "s2" }

WakeInstants ==
    << 0, SESSION_IDLE_TIMEOUT, SESSION_IDLE_TIMEOUT + 1,
       SESSION_TIMEOUT - SESSION_IDLE_TIMEOUT, SESSION_TIMEOUT,
       SESSION_TIMEOUT + 1 >>

\* time passes to the next of these instants
WakeTick ==
    /\ \E i \in 1 .. Len(WakeInstants) - 1 :
         /\ now = WakeInstants[i]
         /\ now' = WakeInstants[i + 1]
    /\ last' = [NoCall EXCEPT !.name = "tick"]
    /\ UNCHANGED ACTIVE_SESSIONS
    /\ SessUnchanged

NextWake ==
    \/ SessStart(WakeIds)
    \/ SessSend(WakeIds)
    \/ SessRead(WakeIds, { <<>> })
    \/ WakeTick
    \/ Reaper

SpecWake == InitSess /\ [][NextWake]_vars

IdleTime(sid) == now - ACTIVE_SESSIONS[sid].last_accessed

Lifetime(sid) == now - ACTIVE_SESSIONS[sid].created_at

\* the step is a send_input or read_output that reached the session
Accessed(sid) ==
    /\ last'.name \in { "send_input", "read_output" }
    /\ last'.ok
    /\ last'.sess.sid = sid

\* C31: a wake of the reaper removes a session exactly when its idle time
\* is above SESSION_IDLE_TIMEOUT or its lifetime above SESSION_TIMEOUT at
\* that moment, and removes nothing else; send_input and read_output that
\* reach a session bring its idle time back to zero, which does not keep a
\* session beyond its lifetime.
C31_ReapedIffExpired ==
    [][ /\ ( last'.name = "reaper" ) =>
             /\ DOMAIN ACTIVE_SESSIONS' \subseteq DOMAIN ACTIVE_SESSIONS
             /\ \A sid \in DOMAIN ACTIVE_SESSIONS :
                  /\ ( sid \notin DOMAIN ACTIVE_SESSIONS' ) <=>
                       ( \/ IdleTime(sid) > SESSION_IDLE_TIMEOUT
                         \/ Lifetime(sid) > SESSION_TIMEOUT )
                  /\ ( sid \in DOMAIN ACTIVE_SESSIONS' ) =>
                       ( ACTIVE_SESSIONS'[sid] = ACTIVE_SESSIONS[sid] )
        /\ \A sid \in WakeIds :
             Accessed(sid) =>
               /\ sid \in DOMAIN ACTIVE_SESSIONS'
               /\ ACTIVE_SESSIONS'[sid].last_accessed = now
               /\ ACTIVE_SESSIONS'[sid].created_at = ACTIVE_SESSIONS[sid].created_at
      ]_vars

\* at the total timeout to the second a wake took the session last used
\* at the start and kept the one used since
C31_Witness ==
    /\ last.name = "reaper"
    /\ now = SESSION_TIMEOUT
    /\ last.sess.reaped # {}
    /\ \E sid \in DOMAIN ACTIVE_SESSIONS :
         /\ ACTIVE_SESSIONS[sid].created_at = 0
         /\ now - ACTIVE_SESSIONS[sid].last_accessed = SESSION_IDLE_TIMEOUT

-----------------------------------------------------------------------------
(* Specification SpecLock: the session table among its threads.  The        *)
(* caller's thread runs one tool call at a time (the dispatcher is         *)
(* sequential); the reaper's thread sleeps and sweeps; every session has   *)
(* a process writing lines to two pipes and two reader threads moving      *)
(* them to the session's queue.  A call is three steps, taking the lock,   *)
(* the body of the `with` block, and leaving it, and read_output goes on   *)
(* with its polling loop one get at a time.                                 *)

LockIds == { "s1" }

Streams == { "stdout", "stderr" }

MaxLines == 2

LockCalls ==
    { "start_session", "send_input", "read_output", "close_session",
      "list_sessions" }

\* the n-th line a process writes to a stream: short lines on stdout, on
\* stderr lines longer than OUTPUT_BUFFER_SIZE
OutLine(stream, n) ==
    [stream |-> stream, seq |-> n,
     body |-> IF stream = "stderr" THEN LongLine.body ELSE ShortLine.body,
     trail |-> 1]

LockUnchanged ==
    UNCHANGED << CURRENT_PLAN, CURRENT_SESSION_ID, PLAN_DECISION_MADE,
                 SIGNIFICANT_ACTIONS_COUNT, WORK_DIR, BYPASS_WORK_DIR_LIMIT,
                 BYPASS_PERMISSION, BYPASS_PLAN_CHECK, EXIT_ON_TERMINATE,
                 SESSION_APPROVED_TOOLS, PERMISSION_CALLBACK, fs, planFiles,
                 planLog, host, remembered, pathIn, pathOut, writer >>

\* the arguments of the caller's call
LockArgs(name, sid) ==
    IF name = "start_session"
    THEN [Args({ "command" }) EXCEPT !.command = txtA]
    ELSE IF name = "send_input"
    THEN [Args({ "session_id", "input_text" }) EXCEPT
             !.session_id = sid, !.input_text = txtA]
    ELSE SessArgs(sid)

\* what the body of the `with` block answers and makes of the table
LockedBody(name, sid) ==
    The({
    IF name = "start_session" THEN start_session(ACTIVE_SESSIONS, now, a, env)
    ELSE IF name = "send_input" THEN send_input(ACTIVE_SESSIONS, now, a, env)
    ELSE IF name = "read_output" THEN read_output(ACTIVE_SESSIONS, now, a, env)
    ELSE IF name = "close_session" THEN close_session(ACTIVE_SESSIONS, now, a, env)
    ELSE list_sessions(ACTIVE_SESSIONS, now, a, env)
    : a \in { LockArgs(name, sid) },
      env \in { SessEnv(sid, TRUE, TRUE, TRUE, <<>>) } })

LockObserved(name, sid, answer, output_lines, marker) ==
    [ NoCall EXCEPT
        !.name = name, !.outcome = "return", !.ok = answer.ok,
        !.msg = answer.msg, !.ran = TRUE,
        !.sess = [ NoSess EXCEPT
                     !.sid = sid,
                     !.lines = [ i \in 1 .. Len(output_lines) |->
                                   rstrip(output_lines[i]) ],
                     !.marker = marker ] ]

Removed(removals, gone) ==
    [ k \in DOMAIN removals \cup gone |->
        ( IF k \in DOMAIN removals THEN removals[k] ELSE 0 )
        + ( IF k \in gone THEN 1 ELSE 0 ) ]

\* `with SESSION_LOCK:` at the head of a call; a new session gets an id
\* that was not handed out before
CallerAcquire ==
    /\ run.at.caller = "idle"
    /\ SESSION_LOCK = ""
    /\ \E name \in LockCalls, sid \in LockIds :
         /\ ( name = "start_session" ) =>
              ( sid \notin DOMAIN run.queues /\ now < LastInstant )
         /\ run' = [run EXCEPT !.at.caller = "locked", !.name = name,
                               !.sid = sid]
         /\ last' = [NoCall EXCEPT !.name = "acquire"]
    /\ SESSION_LOCK' = "caller"
    /\ UNCHANGED << ACTIVE_SESSIONS, now >>
    /\ LockUnchanged

\* the body of the block: the only place where the call reads or writes
\* ACTIVE_SESSIONS
CallerBody ==
    /\ run.at.caller = "locked"
    /\ \E r \in { LockedBody(run.name, run.sid) } :
         /\ ACTIVE_SESSIONS' = r.sessions
         /\ run' =
              [run EXCEPT
                 !.at.caller = "leaving",
                 !.answer = [ok |-> r.ok, msg |-> r.msg],
                 !.guarded = run.guarded /\ SESSION_LOCK = "caller",
                 !.session = IF run.name = "read_output" /\ r.ok
                             THEN run.sid ELSE "",
                 !.queues = IF r.spawned
                            THEN [ k \in DOMAIN run.queues \cup { run.sid } |->
                                     IF k = run.sid THEN <<>> ELSE run.queues[k] ]
                            ELSE run.queues,
                 !.pipes = IF r.spawned
                           THEN [ k \in DOMAIN run.pipes \cup { run.sid } |->
                                    IF k = run.sid
                                    THEN [ s \in Streams |-> <<>> ]
                                    ELSE run.pipes[k] ]
                           ELSE run.pipes,
                 !.made = IF r.spawned
                          THEN [ k \in DOMAIN run.made \cup { run.sid } |->
                                   IF k = run.sid
                                   THEN [ s \in Streams |-> 0 ]
                                   ELSE run.made[k] ]
                          ELSE run.made,
                 !.returned = IF r.spawned
                              THEN [ k \in DOMAIN run.returned \cup { run.sid } |->
                                       IF k = run.sid THEN <<>>
                                       ELSE run.returned[k] ]
                              ELSE run.returned,
                 !.removals = Removed(run.removals,
                                      DOMAIN ACTIVE_SESSIONS \ DOMAIN r.sessions) ]
    /\ last' = [NoCall EXCEPT !.name = "body"]
    /\ UNCHANGED << SESSION_LOCK, now >>
    /\ LockUnchanged

\* the end of the block: the call returns, or read_output goes on to poll
CallerRelease ==
    /\ run.at.caller = "leaving"
    /\ IF run.name = "read_output" /\ run.answer.ok
       THEN /\ SESSION_LOCK' = lock_when_polling(SESSION_LOCK)
            /\ run' = [run EXCEPT !.at.caller = "polling",
                                  !.output_lines = <<>>, !.total_size = 0]
            /\ last' = [NoCall EXCEPT !.name = "release"]
       ELSE /\ SESSION_LOCK' = ""
            /\ run' = [run EXCEPT !.at.caller = "idle", !.name = "",
                                  !.sid = ""]
            /\ last' = LockObserved(run.name, run.sid, run.answer, <<>>, FALSE)
    /\ UNCHANGED << ACTIVE_SESSIONS, now >>
    /\ LockUnchanged

\* read_output returns what it has dequeued
ReadReturns(queues, output_lines, marker) ==
    /\ SESSION_LOCK' = IF SESSION_LOCK = "caller" THEN "" ELSE SESSION_LOCK
    /\ run' = [run EXCEPT
                 !.at.caller = "idle", !.name = "", !.sid = "",
                 !.session = "", !.output_lines = <<>>, !.total_size = 0,
                 !.queues = queues,
                 !.returned[run.session] = @ \o output_lines]
    /\ last' = LockObserved("read_output", run.sid,
                            [ok |-> TRUE,
                             msg |-> IF output_lines = <<>>
                                     THEN "[no output within timeout]"
                                     ELSE "output"],
                            output_lines, marker)

\* one output_queue.get of the polling loop: a line comes out and the
\* loop goes on, or ends on the size; the queue is empty and the loop
\* ends on what it has, or goes on
ReadPoll ==
    /\ run.at.caller = "polling"
    /\ \E got \in { queue_get(run.queues[run.session]) } :
         IF got.empty
         THEN /\ ~ keep_waiting(run.output_lines)
              /\ ReadReturns(run.queues, run.output_lines, FALSE)
         ELSE \E line \in { Head(run.queues[run.session]) } :
              \E queues \in { [run.queues EXCEPT ![run.session] = got.rest] } :
                IF run.total_size + line_len(line) > OUTPUT_BUFFER_SIZE
                THEN ReadReturns(queues, Append(run.output_lines, line), TRUE)
                ELSE /\ run' = [run EXCEPT
                                  !.queues = queues,
                                  !.output_lines = Append(@, line),
                                  !.total_size = @ + line_len(line)]
                     /\ last' = [NoCall EXCEPT !.name = "poll"]
                     /\ UNCHANGED SESSION_LOCK
    /\ UNCHANGED << ACTIVE_SESSIONS, now >>
    /\ LockUnchanged

\* the deadline of read_output passes: `while time.time() < deadline`
ReadDeadline ==
    /\ run.at.caller = "polling"
    /\ ReadReturns(run.queues, run.output_lines, FALSE)
    /\ UNCHANGED << ACTIVE_SESSIONS, now >>
    /\ LockUnchanged

\* the reaper wakes up from its sleep and takes the lock
ReaperAcquire ==
    /\ run.at.reaper = "asleep"
    /\ SESSION_LOCK = ""
    /\ SESSION_LOCK' = "reaper"
    /\ run' = [run EXCEPT !.at.reaper = "locked"]
    /\ last' = [NoCall EXCEPT !.name = "acquire"]
    /\ UNCHANGED << ACTIVE_SESSIONS, now >>
    /\ LockUnchanged

\* the sweep and the end of its `with` block
ReaperSweep ==
    /\ run.at.reaper = "locked"
    /\ \E r \in { cleanup_expired_sessions(ACTIVE_SESSIONS, now,
                      [ k \in DOMAIN ACTIVE_SESSIONS |-> TRUE ]) } :
         /\ ACTIVE_SESSIONS' = r.sessions
         /\ run' = [run EXCEPT
                      !.at.reaper = "asleep",
                      !.guarded = run.guarded /\ SESSION_LOCK = "reaper",
                      !.removals = Removed(run.removals, r.reaped)]
         /\ last' = [NoCall EXCEPT
                       !.name = "reaper",
                       !.sess = [NoSess EXCEPT !.reaped = r.reaped]]
    /\ SESSION_LOCK' = ""
    /\ UNCHANGED now
    /\ LockUnchanged

\* the process of a session in the table writes its next line to a pipe
ProcessWrites ==
    /\ \E sid \in DOMAIN ACTIVE_SESSIONS, stream \in Streams :
         /\ ACTIVE_SESSIONS[sid].alive
         /\ run.made[sid][stream] < MaxLines
         /\ run' = [run EXCEPT
                      !.made[sid][stream] = @ + 1,
                      !.pipes[sid][stream] =
                          Append(@, OutLine(stream, run.made[sid][stream] + 1))]
    /\ last' = [NoCall EXCEPT !.name = "process_writes"]
    /\ UNCHANGED << ACTIVE_SESSIONS, SESSION_LOCK, now >>
    /\ LockUnchanged

\* _read_stream: a reader thread takes the line its pipe holds and puts it
\* on the queue of the session
ReadStreamOf(sid, stream) ==
    /\ sid \in DOMAIN run.pipes
    /\ run.pipes[sid][stream] # <<>>
    /\ run' = [run EXCEPT
                 !.pipes[sid][stream] = Tail(@),
                 !.queues[sid] = queue_put(@, Head(run.pipes[sid][stream]))]
    /\ last' = [NoCall EXCEPT !.name = "read_stream"]
    /\ UNCHANGED << ACTIVE_SESSIONS, SESSION_LOCK, now >>
    /\ LockUnchanged

ReadStream == \E sid \in LockIds, stream \in Streams : ReadStreamOf(sid, stream)

\* time passes to the next instant
LockTick ==
    /\ \E i \in 1 .. Len(Instants) - 1 :
         /\ now = Instants[i]
         /\ now' = Instants[i + 1]
    /\ last' = [NoCall EXCEPT !.name = "tick"]
    /\ UNCHANGED << ACTIVE_SESSIONS, SESSION_LOCK, run >>
    /\ LockUnchanged

NextLock ==
    \/ CallerAcquire
    \/ CallerBody
    \/ CallerRelease
    \/ ReadPoll
    \/ ReadDeadline
    \/ ReaperAcquire
    \/ ReaperSweep
    \/ ProcessWrites
    \/ ReadStream
    \/ LockTick

SpecLock == InitSess /\ [][NextLock]_vars

\* the caller's thread or the reaper's thread is inside its `with` block
InsideBlock(thread) ==
    /\ SESSION_LOCK = thread
    /\ run.at[thread] = "locked"

\* a read_output has left its block and polls the queue
PendingRead == run.at.caller = "polling"

\* C32: the session table is read and written only by the thread that
\* holds SESSION_LOCK; read_output polls its queue with the lock released,
\* so that the reaper can take the lock while a read is pending; a read
\* whose session leaves the table during the poll returns success all the
\* same and leaves the table alone; no id is deleted twice and a deleted
\* id does not come back.
C32_TableUnderLock ==
    /\ [] ( /\ run.guarded
            /\ PendingRead => ( SESSION_LOCK # "caller" )
            /\ ( PendingRead /\ run.at.reaper = "asleep" /\ SESSION_LOCK = "" )
                 => ENABLED ReaperAcquire
            /\ PendingRead => ENABLED ReadDeadline
            /\ \A sid \in DOMAIN run.removals :
                 /\ run.removals[sid] <= 1
                 /\ ( run.removals[sid] = 1 ) =>
                      ( sid \notin DOMAIN ACTIVE_SESSIONS ) )
    /\ [][ /\ ( ACTIVE_SESSIONS' # ACTIVE_SESSIONS ) =>
                ( InsideBlock("caller") \/ InsideBlock("reaper") )
           /\ ( PendingRead /\ ~ PendingRead' ) =>
                /\ last'.name = "read_output"
                /\ last'.ok
                /\ ACTIVE_SESSIONS' = ACTIVE_SESSIONS
         ]_vars

\* a read gave back lines of a session the reaper took during the poll
C32_Witness ==
    /\ last.name = "read_output"
    /\ last.ok
    /\ last.sess.lines # <<>>
    /\ last.sess.sid \notin DOMAIN ACTIVE_SESSIONS
    /\ last.sess.sid \in DOMAIN run.removals

\* the lines read_output holds between its gets
InHand(sid) == IF run.session = sid THEN run.output_lines ELSE <<>>

\* the lines of a stream among the given ones, in their order
OfStream(lines, stream) ==
    LET from_stream(line) == line.stream = stream
    IN  SelectSeq(lines, from_stream)

\* the lines a process has written to a stream so far, in the order written
Written(sid, stream) ==
    [ n \in 1 .. run.made[sid][stream] |-> OutLine(stream, n) ]

\* C33: of the lines a process wrote to a stream, those returned by
\* read_output so far, those a pending read holds, those in the queue and
\* those still in the pipe are, in this order, the lines written, each
\* once: a line is returned by at most one read, none is lost while it
\* waits, and the order of a stream is kept; a read that stops on the size
\* takes the line it dequeued and leaves the rest of the queue in place;
\* a reader thread with a line in its pipe can always put it on the queue.
C33_EachLineOnceInOrder ==
    /\ [] ( \A sid \in DOMAIN run.queues, stream \in Streams :
              /\ OfStream(run.returned[sid] \o InHand(sid) \o run.queues[sid],
                          stream)
                   \o run.pipes[sid][stream] = Written(sid, stream)
              /\ ( run.pipes[sid][stream] # <<>> ) =>
                   ENABLED ReadStreamOf(sid, stream) )
    /\ [][ \A sid \in DOMAIN run.queues :
             /\ ( last'.name = "read_output" /\ last'.sess.marker
                  /\ run.session = sid ) =>
                  /\ run.queues[sid] # <<>>
                  /\ run.queues'[sid] = Tail(run.queues[sid])
                  /\ run.returned'[sid] =
                       run.returned[sid] \o run.output_lines
                         \o << Head(run.queues[sid]) >>
             /\ ( run.returned'[sid] # run.returned[sid] ) =>
                  ( last'.name = "read_output" /\ last'.ok )
         ]_vars

\* a read stopped on the size with a line left in the queue, after an
\* earlier read had returned a line of the same session
C33_Witness ==
    /\ last.name = "read_output"
    /\ last.sess.marker
    /\ Len(last.sess.lines) >= 2
    /\ run.queues[last.sess.sid] # <<>>
    /\ Len(run.returned[last.sess.sid]) > Len(last.sess.lines)

-----------------------------------------------------------------------------
(* SessionManager: a start that fails *)

\* C34: a start_session that answers failure leaves the session table as
\* it was, also when the shell was spawned and the write of the command to
\* its stdin failed.
C34_FailedStartLeavesTable ==
    [][ ( last'.name = "start_session" /\ ~ last'.ok ) =>
          ( ACTIVE_SESSIONS' = ACTIVE_SESSIONS )
      ]_vars

-----------------------------------------------------------------------------
(* PlanTracker: the plan of a conversation session *)

\* C35: a conversation session that has not decided about a plan has no
\* plan: after set_session_id for a new conversation the tasks of the
\* previous one are gone.
C35_UndecidedHasNoPlan ==
    ( ~ PLAN_DECISION_MADE ) => ( ~ CURRENT_PLAN.exists )

TaskStatuses == { "pending", "in_progress", "completed" }

\* C36: the status of every task of the plan is pending, in_progress or
\* completed, and the ids of the tasks are 1..n in the order of the list.
C36_PlanWellFormed ==
    CURRENT_PLAN.exists =>
        \A i \in 1 .. Len(CURRENT_PLAN.tasks) :
            /\ CURRENT_PLAN.tasks[i].status \in TaskStatuses
            /\ CURRENT_PLAN.tasks[i].id = i

-----------------------------------------------------------------------------
(* Specification SpecAnchor: patch-mode edit_file on a file of up to three  *)
(* lines, with the ways an anchor can say which match it means: nth,       *)
(* occurrence, must_unique and a range of lines, in one hunk or after a    *)
(* hunk that changes the length of the text.                                *)

MaxAnchorLen == 5

txtLines == txtA \o NEWLINE \o txtA \o NEWLINE \o txtA

AnchorHunk(pattern, has, nth, occurrence, range, must_unique, op, content) ==
    [ anchor |-> [type |-> "exact", pattern |-> pattern, nth |-> nth,
                  occurrence |-> occurrence, range |-> range, has |-> has],
      must_unique |-> must_unique, op |-> op, content |-> content ]

\* nth absent, below 1, within and above the matches of a text of three
\* "a", an nth together with occurrence "last", and an nth on a pattern
\* that the written texts do not hold
SelectHunks ==
    { AnchorHunk(txtA, {}, 0, occ, <<>>, FALSE, "replace", txtB) :
        occ \in { "first", "last" } }
      \cup
    { AnchorHunk(txtA, { "nth" }, nth, "first", <<>>, FALSE, "replace", txtB) :
        nth \in 0 .. 4 }
      \cup
    { AnchorHunk(txtA, { "nth" }, 2, "last", <<>>, FALSE, "replace", txtB),
      AnchorHunk(<< "c" >>, { "nth" }, 1, "first", <<>>, FALSE, "replace", txtB) }

\* must_unique with every way to select, and an occurrence that is neither
\* "first" nor "last"
UniqueHunks ==
    { AnchorHunk(txtA, {}, 0, occ, <<>>, TRUE, "replace", txtB) :
        occ \in { "first", "last", "any" } }
      \cup
    { AnchorHunk(txtA, { "nth" }, 2, "first", <<>>, TRUE, "replace", txtB),
      AnchorHunk(txtA, {}, 0, "any", <<>>, FALSE, "replace", txtB) }

\* windows on the first, the middle and the last line, to the last line
\* and beyond it, starting beyond it, and two that are not windows
WindowHunks ==
    { AnchorHunk(txtA, {}, 0, "first", range, FALSE, "replace", txtB) :
        range \in { << 1, 1 >>, << 2, 2 >>, << 2, 3 >>, << 3, 9 >>,
                    << 4, 4 >>, << 2, 1 >>, << 0, 1 >> } }
      \cup
    { AnchorHunk(txtA, {}, 0, "last", << 2, 3 >>, FALSE, "replace", txtB),
      AnchorHunk(txtA, {}, 0, "first", << 2, 2 >>, TRUE, "replace", txtB) }

\* hunks after which the text is longer, shorter, or as long with another
\* letter at the place
LengthHunks ==
    { AnchorHunk(txtA, {}, 0, "first", <<>>, FALSE, "delete", <<>>),
      AnchorHunk(txtA, {}, 0, "first", <<>>, FALSE, "insert_before", txtB),
      AnchorHunk(txtA, {}, 0, "first", <<>>, FALSE, "replace", txtB) }

SecondHunks ==
    { AnchorHunk(txtA, {}, 0, "last", <<>>, FALSE, "replace", txtB),
      AnchorHunk(txtB, {}, 0, "last", <<>>, FALSE, "replace", txtA),
      AnchorHunk(txtA, {}, 0, "first", << 2, 2 >>, FALSE, "replace", txtB) }

AnchorArgs ==
    { PatchArg("patch", FALSE, <<>>, << h >>) :
        h \in SelectHunks \cup UniqueHunks \cup WindowHunks }
      \cup { PatchArg("patch", FALSE, <<>>, << h1, h2 >>) :
               h1 \in LengthHunks, h2 \in SecondHunks }
      \cup { PatchArg("overwrite", FALSE, t, <<>>) :
               t \in { txtLines, txtA \o NEWLINE } }

\* edit_file from its first line to its return
AnchorCall ==
    /\ \E a \in AnchorArgs :
       \E r \in { edit_file(fs, WORK_DIR, BYPASS_WORK_DIR_LIMIT, a) } :
          /\ Len(r.commit.text) <= MaxAnchorLen
          /\ fs' = r.fs
          /\ last' = EditObserved("edit_file", a, "return", r)
    /\ UNCHANGED << writer, SESSION_APPROVED_TOOLS >>
    /\ EditUnchanged

NextAnchor == AnchorCall

SpecAnchor == InitPatch /\ [][NextAnchor]_vars

\* the call just answered was edit_file in patch mode with one hunk, on
\* the file when it held a text
OneHunkCall ==
    /\ last'.name = "edit_file"
    /\ last'.edit.args.mode = "patch"
    /\ Len(last'.edit.args.hunks) = 1
    /\ node_at(fs, PatchTarget).kind = "file"

\* span (b, e) of prev is the occurrence of h's anchor that nth, when the
\* anchor has one, and occurrence ask for
SelectedBy(prev, h, b, e) ==
    LET occ == Occurrences(prev, h.anchor.pattern)
        earlier == Cardinality({ i \in occ : i < b })
    IN  /\ b \in occ
        /\ e = b + Len(h.anchor.pattern)
        /\ earlier = IF "nth" \in h.anchor.has THEN h.anchor.nth - 1
                     ELSE IF h.anchor.occurrence = "last"
                     THEN Cardinality(occ) - 1
                     ELSE 0

\* the hunk asks for one match only, does not say which, and there are n
NotSelectedAmong(h, n) ==
    /\ h.must_unique
    /\ "nth" \notin h.anchor.has
    /\ h.anchor.occurrence # "last"
    /\ n > 1

\* what the selection rule says of a hunk without a range on a text where
\* its anchor has n matches
SelectionRule(h, n) ==
    IF "nth" \in h.anchor.has /\ (h.anchor.nth < 1 \/ h.anchor.nth > n)
    THEN /\ ~ last'.ok
         /\ last'.msg = "Requested occurrence not found"
         /\ ~ last'.edit.applied
         /\ fs' = fs
    ELSE /\ last'.ok
         /\ Len(last'.edit.patch.matches) = 1
         /\ SelectedBy(PatchOriginal, h, last'.edit.patch.matches[1][1],
                       last'.edit.patch.matches[1][2])

\* C37 (as stated): the span a hunk acts on is the nth match, counted from
\* 1 from the left, when nth is given, otherwise the last match when
\* occurrence is "last", otherwise the first; an nth below 1 or above the
\* number of matches fails with "Requested occurrence not found" and no
\* match is selected.
C37_AsStated ==
    [][ OneHunkCall =>
          LET h == last'.edit.args.hunks[1]
              n == Cardinality(Occurrences(PatchOriginal, h.anchor.pattern))
          IN  ( /\ h.anchor.range = <<>>
                /\ ~ NotSelectedAmong(h, n)
                /\ (n >= 1 \/ "nth" \in h.anchor.has) ) => SelectionRule(h, n)
      ]_vars

\* C37: on a text where the anchor has at least one match, the span a hunk
\* acts on is the nth match, counted from 1 from the left, when nth is
\* given, otherwise the last match when occurrence is "last", otherwise
\* the first; an nth below 1 or above the number of matches fails with
\* "Requested occurrence not found", and the file is left as it was.
C37_NthThenLastThenFirst ==
    [][ OneHunkCall =>
          LET h == last'.edit.args.hunks[1]
              n == Cardinality(Occurrences(PatchOriginal, h.anchor.pattern))
          IN  ( /\ h.anchor.range = <<>>
                /\ ~ NotSelectedAmong(h, n)
                /\ n >= 1 ) => SelectionRule(h, n)
      ]_vars

\* a hunk with nth 2 and occurrence "last" acted on the second of three
\* matches
C37_Witness ==
    /\ last.name = "edit_file"
    /\ last.edit.args.mode = "patch"
    /\ Len(last.edit.args.hunks) = 1
    /\ "nth" \in last.edit.args.hunks[1].anchor.has
    /\ last.edit.args.hunks[1].anchor.nth = 2
    /\ last.edit.args.hunks[1].anchor.occurrence = "last"
    /\ last.ok
    /\ last.edit.applied
    /\ last.edit.patch.matches = << << 2, 3 >> >>
    /\ PatchOriginal = txtA \o NEWLINE \o txtB \o NEWLINE \o txtA

\* C38: with must_unique true, no nth and an occurrence that is not
\* "last", a hunk whose anchor has more than one match fails with the
\* ambiguous-anchor error and the file is left as it was; with an nth,
\* with occurrence "last", or with must_unique false, the ambiguous-anchor
\* error is never the answer.
C38_AmbiguousOnlyWhenNotSelected ==
    [][ OneHunkCall =>
          LET h == last'.edit.args.hunks[1]
              n == Cardinality(Occurrences(PatchOriginal, h.anchor.pattern))
          IN  h.anchor.range = <<>> =>
                IF NotSelectedAmong(h, n)
                THEN /\ ~ last'.ok
                     /\ last'.msg = "Anchor ambiguous"
                     /\ ~ last'.edit.applied
                     /\ fs' = fs
                ELSE n > 1 => last'.msg # "Anchor ambiguous"
      ]_vars

\* the line, counted from 1, that holds the character at 0-based offset
\* off of text
LineOf(text, off) ==
    1 + Cardinality({ i \in 1..off : text[i] = "\n" })

\* C39: when a hunk's anchor carries a range of two lines, start first,
\* the span the hunk acts on lies wholly within those lines of the text
\* the hunk is applied to, its offsets counted from the start of the file;
\* a match outside the window is never selected, also when the window
\* reaches or starts beyond the last line.
C39_SpanInsideWindow ==
    [][ ( /\ OneHunkCall
          /\ Len(last'.edit.args.hunks[1].anchor.range) = 2
          /\ last'.ok ) =>
            LET h == last'.edit.args.hunks[1]
                b == last'.edit.patch.matches[1][1]
                e == last'.edit.patch.matches[1][2]
            IN  ( /\ h.anchor.range[1] >= 1
                  /\ h.anchor.range[1] <= h.anchor.range[2] ) =>
                    /\ Len(last'.edit.patch.matches) = 1
                    /\ 0 <= b /\ b < e /\ e <= Len(PatchOriginal)
                    /\ SubSeq(PatchOriginal, b + 1, e) = h.anchor.pattern
                    /\ LineOf(PatchOriginal, b) >= h.anchor.range[1]
                    /\ LineOf(PatchOriginal, e - 1) <= h.anchor.range[2]
      ]_vars

\* the first n characters of text, all of it when it is shorter
FirstChars(text, n) ==
    SubSeq(text, 1, IF Len(text) < n THEN Len(text) ELSE n)

\* C40: for every hunk of a patch that succeeded, the matches entry holds
\* the lines, counted from 1, of the first and the last character of the
\* span the hunk selected, and a snippet that is the first 120 characters
\* at most of the text the span covered when the hunk was applied; for the
\* first hunk and for each hunk after hunks that changed the text.
C40_MatchesEntryOfEachHunk ==
    [][ ( /\ last'.name = "edit_file"
          /\ last'.edit.args.mode = "patch"
          /\ last'.ok ) =>
            LET hunks == last'.edit.args.hunks
                done == last'.edit.patch
                before(i) == IF i = 1 THEN PatchOriginal ELSE done.texts[i - 1]
            IN  /\ Len(done.meta) = Len(hunks)
                /\ \A i \in 1..Len(hunks) :
                     LET b == done.matches[i][1]
                         e == done.matches[i][2]
                     IN  /\ done.meta[i].op = hunks[i].op
                         /\ done.meta[i].start_line = LineOf(before(i), b)
                         /\ done.meta[i].end_line = LineOf(before(i), e - 1)
                         /\ done.meta[i].anchor_snippet =
                              FirstChars(SubSeq(before(i), b + 1, e), 120)
      ]_vars

====
